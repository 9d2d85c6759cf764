----------------------------- MODULE TextProofs -----------------------------
(***************************************************************************)
(* Proofs about the readers of Text. Every row is written as a line from   *)
(* which it is read back, wherever the line stands in a file, every line   *)
(* that is not refused is that of its row, and a scan finds them all; the  *)
(* text of an id is read as the number it spells; a schema file gives the  *)
(* columns it names; a script is read as its longest lexemes, and a string *)
(* literal as the value it was written for.                                *)
(***************************************************************************)
EXTENDS Text, DataProofs, FiniteSetTheorems

\* A set of characters a file can be made of.
IsCharset(C) == {Backslash, Bar, Newline, "n"} \subseteq C /\ "malformed" \notin C

-----------------------------------------------------------------------------
(* escape_field.                                                           *)

LEMMA EscapedChars ==
  ASSUME NEW C, IsCharset(C), NEW c \in C
  PROVE  /\ Escaped(c) \in Seq(C)
         /\ \/ c \notin {Backslash, Bar, Newline} /\ Escaped(c) = <<c>>
            \/ c \in {Backslash, Bar} /\ Escaped(c) = <<Backslash, c>>
            \/ c = Newline /\ Escaped(c) = <<Backslash, "n">>
BY DEF Escaped, IsCharset, Backslash, Bar, Newline

LEMMA EscapeAppend ==
  ASSUME NEW C, IsCharset(C)
  PROVE  /\ Escape(<<>>) = <<>>
         /\ \A v \in Seq(C) : Escape(v) \in Seq(C)
         /\ \A v \in Seq(C) : \A c \in C : Escape(Append(v, c)) = Escape(v) \o Escaped(c)
<1> DEFINE parts(v) == [i \in DOMAIN v |-> Escaped(v[i])]
<1>1. parts(<<>>) = <<>>
  OBVIOUS
<1>2. \A v \in Seq(C) : parts(v) \in Seq(Seq(C)) /\ Len(parts(v)) = Len(v)
  <2> TAKE v \in Seq(C)
  <2>1. Len(v) \in Nat /\ DOMAIN v = 1..Len(v) /\ \A i \in 1..Len(v) : v[i] \in C
    BY LenProperties, ElementOfSeq
  <2>2. parts(v) \in [1..Len(v) -> Seq(C)]
    BY <2>1, EscapedChars
  <2> DEFINE p == parts(v)
             D == Seq(C)
  <2>3. p \in [1..Len(v) -> D]
    BY <2>2
  <2> HIDE DEF p, D
  <2>4. p \in Seq(D) /\ Len(p) = Len(v)
    BY <2>1, <2>3, FunctionIsSeq
  <2> QED BY <2>4 DEF p, D
<1>3. \A v \in Seq(C) : \A c \in C : parts(Append(v, c)) = Append(parts(v), Escaped(c))
  <2> SUFFICES ASSUME NEW v \in Seq(C), NEW c \in C
               PROVE  parts(Append(v, c)) = Append(parts(v), Escaped(c))
    OBVIOUS
  <2>1. Append(v, c) \in Seq(C) /\ Escaped(c) \in Seq(C)
    BY EscapedChars, AppendProperties
  <2> DEFINE s == parts(Append(v, c))
             t == Append(parts(v), Escaped(c))
  <2>2. /\ Len(Append(v, c)) = Len(v) + 1 /\ DOMAIN Append(v, c) = 1..(Len(v) + 1)
        /\ \A i \in 1..Len(v) : Append(v, c)[i] = v[i]
        /\ Append(v, c)[Len(v) + 1] = c /\ DOMAIN v = 1..Len(v) /\ Len(v) \in Nat
    BY AppendAt
  <2>3. /\ s \in Seq(Seq(C)) /\ Len(s) = Len(v) + 1
        /\ \A i \in 1..(Len(v) + 1) : s[i] = Escaped(Append(v, c)[i])
    BY <1>2, <2>1, <2>2
  <2>4. /\ parts(v) \in Seq(Seq(C)) /\ Len(parts(v)) = Len(v)
        /\ \A i \in 1..Len(v) : parts(v)[i] = Escaped(v[i])
    BY <1>2, <2>2
  <2> HIDE DEF parts
  <2>5. /\ t \in Seq(Seq(C)) /\ Len(t) = Len(v) + 1
        /\ \A i \in 1..Len(v) : t[i] = parts(v)[i]
        /\ t[Len(v) + 1] = Escaped(c)
    BY <2>1, <2>4, AppendProperties
  <2> HIDE DEF s, t
  <2>6. \A i \in 1..Len(s) : s[i] = t[i]
    <3> TAKE i \in 1..Len(s)
    <3>1. CASE i = Len(v) + 1
      BY <2>2, <2>3, <2>5, <3>1
    <3>2. CASE i # Len(v) + 1
      <4>1. i \in 1..Len(v) /\ i \in 1..(Len(v) + 1)
        BY <2>2, <2>3, <3>2
      <4> QED BY <2>2, <2>3, <2>4, <2>5, <4>1
    <3> QED BY <3>1, <3>2
  <2>7. s = t
    <3>1. Len(s) = Len(t)
      BY <2>3, <2>5
    <3> QED BY <2>3, <2>5, <2>6, <3>1, SeqEqual
  <2> QED BY <2>7 DEF s, t
<1>4. \A v : Escape(v) = FlattenSeq(parts(v))
  BY DEF Escape
<1> HIDE DEF parts
<1>5. \A v \in Seq(C) : Escape(v) \in Seq(C)
  BY <1>2, <1>4, FlattenAppend
<1>6. \A v \in Seq(C) : \A c \in C : Escape(Append(v, c)) = Escape(v) \o Escaped(c)
  <2> TAKE v \in Seq(C)
  <2> TAKE c \in C
  <2>1. Escape(Append(v, c)) = FlattenSeq(Append(parts(v), Escaped(c)))
    BY <1>3, <1>4
  <2>2. parts(v) \in Seq(Seq(C)) /\ Escaped(c) \in Seq(C)
    BY <1>2, EscapedChars
  <2>3. FlattenSeq(Append(parts(v), Escaped(c))) = FlattenSeq(parts(v)) \o Escaped(c)
    BY <2>2, FlattenAppend
  <2> QED BY <1>4, <2>1, <2>3
<1>7. Escape(<<>>) = <<>>
  BY <1>1, <1>4, FlattenAppend
<1> QED BY <1>5, <1>6, <1>7

-----------------------------------------------------------------------------
(* unescape_field.                                                         *)

\* What unescape_field may return.
Fields(C) == Seq(C) \cup {MalformedValue}

\* The value at place i of a field when value holds those behind it.
Part(field, i, value) ==
    IF i > Len(field) THEN <<>>
    ELSE LET escape == field[i] = Backslash
             char == IF escape /\ i < Len(field) THEN field[i + 1] ELSE field[i]
             rest == value[IF escape THEN i + 2 ELSE i + 1]
         IN IF \/ rest = MalformedValue
               \/ escape /\ (i = Len(field) \/ ~IsEscape(char))
            THEN MalformedValue
            ELSE <<IF escape /\ char = "n" THEN Newline ELSE char>> \o rest

Unescapes(f, field, C) ==
    /\ f \in [1..(Len(field) + 2) -> Fields(C)]
    /\ \A i \in 1..(Len(field) + 2) : f[i] = Part(field, i, f)
    /\ Unescape(field) = f[1]

LEMMA PartTyped ==
  ASSUME NEW C, IsCharset(C), NEW field \in Seq(C), NEW i \in 1..(Len(field) + 2),
         NEW h \in [1..(Len(field) + 2) -> Fields(C)]
  PROVE  Part(field, i, h) \in Fields(C)
<1>1. Len(field) \in Nat /\ \A j \in 1..Len(field) : field[j] \in C
  BY LenProperties, ElementOfSeq
<1>2. CASE i > Len(field)
  BY <1>2 DEF Part, Fields
<1>3. CASE ~(i > Len(field))
  <2> DEFINE escape == field[i] = Backslash
             char == IF escape /\ i < Len(field) THEN field[i + 1] ELSE field[i]
             rest == h[IF escape THEN i + 2 ELSE i + 1]
             first == IF escape /\ char = "n" THEN Newline ELSE char
             bad == \/ rest = MalformedValue
                    \/ escape /\ (i = Len(field) \/ ~IsEscape(char))
  <2>1. char \in C /\ first \in C
    BY <1>1, <1>3 DEF IsCharset
  <2>2. rest \in Fields(C)
    BY <1>1, <1>3
  <2>3. Part(field, i, h) = IF bad THEN MalformedValue ELSE <<first>> \o rest
    BY <1>3 DEF Part
  <2> HIDE DEF first, rest
  <2>4. CASE bad
    BY <2>3, <2>4 DEF Fields
  <2>5. CASE ~bad
    <3>0. rest # MalformedValue
      BY <2>5
    <3>1. rest \in Seq(C) /\ <<first>> \in Seq(C)
      BY <2>1, <2>2, <3>0 DEF Fields
    <3>2. <<first>> \o rest \in Seq(C)
      BY <3>1, ConcatProperties
    <3> QED BY <2>3, <2>5, <3>2 DEF Fields
  <2> QED BY <2>4, <2>5
<1> QED BY <1>2, <1>3

LEMMA UnescapeSteps ==
  ASSUME NEW C, IsCharset(C), NEW field \in Seq(C)
  PROVE  \E f : Unescapes(f, field, C)
<1> DEFINE M == Len(field) + 2
           V == Fields(C)
           G == [p \in (1..M) \X [1..M -> V] |-> Part(field, p[1], p[2])]
           nothing == <<>>
<1>1. M \in Nat /\ nothing \in V /\ Len(field) \in Nat
  BY LenProperties DEF Fields
<1>2. \A i \in 1..M : \A h \in [1..M -> V] : G[<<i, h>>] = Part(field, i, h)
  OBVIOUS
<1>3. \A i \in 1..M : \A h \in [1..M -> V] : G[<<i, h>>] \in V
  BY <1>2, PartTyped
<1>4. ASSUME NEW i \in 1..M, NEW h \in [1..M -> V], NEW k \in [1..M -> V],
             \A j \in (i + 1)..M : h[j] = k[j]
      PROVE  G[<<i, h>>] = G[<<i, k>>]
  <2>1. CASE i > Len(field)
    BY <1>2, <2>1 DEF Part
  <2>2. CASE ~(i > Len(field))
    <3>1. i + 1 \in (i + 1)..M /\ i + 2 \in (i + 1)..M
      BY <1>1, <2>2
    <3>2. h[i + 1] = k[i + 1] /\ h[i + 2] = k[i + 2]
      BY <1>4, <3>1
    <3>3. h[IF field[i] = Backslash THEN i + 2 ELSE i + 1] = k[IF field[i] = Backslash THEN i + 2 ELSE i + 1]
      BY <3>2
    <3>4. Part(field, i, h) = Part(field, i, k)
      BY <2>2, <3>3 DEF Part
    <3> QED BY <1>2, <3>4
  <2> QED BY <2>1, <2>2
<1> HIDE DEF G, nothing
<1>5. FillsDown(G, M, V)
  BY <1>3, <1>4 DEF FillsDown
<1> HIDE DEF M, V
<1>6. PICK g : IsFilled(g, G, M, V)
  BY <1>1, <1>5, Downward
<1> DEFINE Is(f) == f = [i \in 1..(Len(field) + 2) |->
                          IF i > Len(field) THEN <<>>
                          ELSE LET escape == field[i] = Backslash
                                   char == IF escape /\ i < Len(field) THEN field[i + 1] ELSE field[i]
                                   rest == f[IF escape THEN i + 2 ELSE i + 1]
                               IN IF \/ rest = MalformedValue
                                     \/ escape /\ (i = Len(field) \/ ~IsEscape(char))
                                  THEN MalformedValue
                                  ELSE <<IF escape /\ char = "n" THEN Newline ELSE char>> \o rest]
           found == CHOOSE f : Is(f)
<1>7. Is(g)
  <2>1. g \in [1..M -> V] /\ \A i \in 1..M : g[i] = Part(field, i, g)
    BY <1>2, <1>6 DEF IsFilled
  <2> QED BY <2>1 DEF Part, M
<1>8. Is(found)
  <2> HIDE DEF Is
  <2> QED BY <1>7
<1>9. Unescape(field) = found[1]
  BY DEF Unescape
<1> HIDE DEF found
<1>10. DOMAIN found = 1..M /\ \A i \in 1..M : found[i] = Part(field, i, found)
  BY <1>8 DEF Part, M
<1> HIDE DEF Is
<1>11. \A i \in 1..M : found[i] \in V
  <2> DEFINE T == {i \in 1..M : found[i] \in V}
  <2>1. ASSUME NEW i \in 1..M, \A j \in (i + 1)..M : j \in T PROVE i \in T
    <3> DEFINE h == [j \in 1..M |-> IF i < j THEN found[j] ELSE nothing]
    <3>1. h \in [1..M -> V]
      <4> SUFFICES ASSUME NEW j \in 1..M PROVE (IF i < j THEN found[j] ELSE nothing) \in V
        OBVIOUS
      <4>1. i < j => j \in T
        BY <1>1, <2>1
      <4> QED BY <1>1, <4>1
    <3>2. Part(field, i, h) = Part(field, i, found)
      <4>1. CASE i > Len(field)
        BY <4>1 DEF Part
      <4>2. CASE ~(i > Len(field))
        <5>1. i + 1 \in 1..M /\ i + 2 \in 1..M /\ i < i + 1 /\ i < i + 2
          BY <1>1, <4>2 DEF M
        <5>2. h[i + 1] = found[i + 1] /\ h[i + 2] = found[i + 2]
          BY <5>1
        <5> HIDE DEF h
        <5>3. h[IF field[i] = Backslash THEN i + 2 ELSE i + 1] = found[IF field[i] = Backslash THEN i + 2 ELSE i + 1]
          BY <5>2
        <5> QED BY <4>2, <5>3 DEF Part
      <4> QED BY <4>1, <4>2
    <3> HIDE DEF h
    <3>3. Part(field, i, h) \in V
      BY <3>1, PartTyped DEF M, V
    <3> QED BY <1>10, <3>2, <3>3
  <2> HIDE DEF T
  <2>2. \A i \in 1..M : i \in T
    BY <1>1, <2>1, DownTo
  <2> QED BY <2>2 DEF T
<1>12. found \in [1..M -> V]
  <2>1. found = [i \in 1..M |-> found[i]]
    BY <1>8 DEF Is, M
  <2> QED BY <1>11, <2>1
<1> QED BY <1>9, <1>10, <1>12 DEF Unescapes, M, V

\* The value at a place is what unescape_field makes of the rest of the field.
LEMMA UnescapeShift ==
  ASSUME NEW C, IsCharset(C), NEW field \in Seq(C), NEW k \in 0..Len(field),
         NEW f, Unescapes(f, field, C)
  PROVE  f[k + 1] = Unescape(SubSeq(field, k + 1, Len(field)))
<1> DEFINE r == SubSeq(field, k + 1, Len(field))
           n == Len(field) - k
<1>1. Len(field) \in Nat /\ n \in Nat /\ \A j \in 1..Len(field) : field[j] \in C
  BY LenProperties, ElementOfSeq
<1>2. r \in Seq(C) /\ Len(r) = n /\ \A j \in 1..n : r[j] = field[k + j]
  <2>1. \A j \in (k + 1)..Len(field) : field[j] \in C
    BY <1>1
  <2>2. /\ r \in Seq(C)
        /\ Len(r) = IF k + 1 <= Len(field) THEN Len(field) - (k + 1) + 1 ELSE 0
        /\ \A j \in 1..(Len(field) - (k + 1) + 1) : r[j] = field[k + 1 + j - 1]
    BY <1>1, <2>1, SubSeqProperties
  <2>3. Len(field) - (k + 1) + 1 = n
    BY <1>1
  <2>4. Len(r) = n
    BY <1>1, <2>2
  <2>5. \A j \in 1..n : r[j] = field[k + j]
    <3> TAKE j \in 1..n
    <3>1. r[j] = field[k + 1 + j - 1] /\ k + 1 + j - 1 = k + j
      BY <1>1, <2>2, <2>3
    <3> QED BY <3>1
  <2> QED BY <2>2, <2>4, <2>5
<1>3. PICK g : Unescapes(g, r, C)
  BY <1>2, UnescapeSteps
<1> HIDE DEF r
<1> DEFINE T == {i \in 1..(n + 2) : g[i] = f[k + i]}
<1>4. ASSUME NEW i \in 1..(n + 2), \A j \in (i + 1)..(n + 2) : j \in T
      PROVE  i \in T
  <2>1. g[i] = Part(r, i, g) /\ f[k + i] = Part(field, k + i, f)
    <3>1. k + i \in 1..(Len(field) + 2) /\ i \in 1..(Len(r) + 2)
      BY <1>1, <1>2
    <3> QED BY <1>3, <3>1 DEF Unescapes
  <2>2. Part(r, i, g) = Part(field, k + i, f)
    <3>1. CASE i > n
      <4>1. i > Len(r) /\ k + i > Len(field)
        BY <1>1, <1>2, <3>1
      <4> QED BY <4>1 DEF Part
    <3>2. CASE ~(i > n)
      <4>1. /\ ~(i > Len(r)) /\ ~(k + i > Len(field))
            /\ i < Len(r) <=> k + i < Len(field)
            /\ i = Len(r) <=> k + i = Len(field)
            /\ i \in 1..n
        BY <1>1, <1>2, <3>2
      <4>2. r[i] = field[k + i] /\ (i < Len(r) => r[i + 1] = field[k + i + 1])
        <5>1. i < Len(r) => i + 1 \in 1..n /\ k + (i + 1) = k + i + 1
          BY <1>1, <1>2, <4>1
        <5> QED BY <1>2, <4>1, <5>1
      <4>3. g[i + 1] = f[k + i + 1] /\ g[i + 2] = f[k + i + 2]
        <5>1. /\ i + 1 \in (i + 1)..(n + 2) /\ i + 2 \in (i + 1)..(n + 2)
              /\ k + (i + 1) = k + i + 1 /\ k + (i + 2) = k + i + 2
          BY <1>1, <4>1
        <5> QED BY <1>4, <5>1
      <4> HIDE DEF n
      <4>4. g[IF r[i] = Backslash THEN i + 2 ELSE i + 1]
              = f[IF field[k + i] = Backslash THEN k + i + 2 ELSE k + i + 1]
        BY <4>2, <4>3
      <4>5. (IF r[i] = Backslash /\ i < Len(r) THEN r[i + 1] ELSE r[i])
              = IF field[k + i] = Backslash /\ k + i < Len(field) THEN field[k + i + 1] ELSE field[k + i]
        BY <4>1, <4>2
      <4> QED BY <4>1, <4>2, <4>4, <4>5 DEF Part
    <3> QED BY <3>1, <3>2
  <2> QED BY <2>1, <2>2
<1>5. 1 \in T
  <2> HIDE DEF T
  <2>1. n + 2 \in Nat /\ 1 \in 1..(n + 2)
    BY <1>1
  <2> DEFINE N == n + 2
  <2>2. \A i \in 1..N : (\A j \in (i + 1)..N : j \in T) => i \in T
    BY <1>4
  <2>3. N \in Nat /\ 1 \in 1..N
    BY <2>1
  <2> HIDE DEF N
  <2>4. \A i \in 1..N : i \in T
    BY <2>2, <2>3, DownTo
  <2> QED BY <2>3, <2>4
<1>6. Unescape(r) = g[1]
  BY <1>3 DEF Unescapes
<1> QED BY <1>5, <1>6 DEF r

LEMMA UnescapeFront ==
  ASSUME NEW C, IsCharset(C), NEW s \in Seq(C)
  PROVE  /\ Unescape(<<>>) = <<>> /\ Unescape(s) \in Fields(C)
         /\ Unescape(<<Backslash>>) = MalformedValue
         /\ \A c \in C : c # Backslash =>
               Unescape(<<c>> \o s) =
                  IF Unescape(s) = MalformedValue THEN MalformedValue ELSE <<c>> \o Unescape(s)
         /\ \A c \in C :
               Unescape(<<Backslash, c>> \o s) =
                  IF Unescape(s) = MalformedValue \/ ~IsEscape(c) THEN MalformedValue
                  ELSE <<IF c = "n" THEN Newline ELSE c>> \o Unescape(s)
<1>1. Unescape(<<>>) = <<>>
  <2>1. <<>> \in Seq(C) /\ Len(<<>>) = 0
    BY EmptySeq
  <2>2. PICK f : Unescapes(f, <<>>, C)
    BY <2>1, UnescapeSteps
  <2>3. f[1] = Part(<<>>, 1, f) /\ Unescape(<<>>) = f[1]
    BY <2>1, <2>2 DEF Unescapes
  <2> QED BY <2>1, <2>3 DEF Part
<1>2. Unescape(s) \in Fields(C)
  <2>1. PICK f : Unescapes(f, s, C)
    BY UnescapeSteps
  <2>2. 1 \in 1..(Len(s) + 2)
    BY LenProperties
  <2> QED BY <2>1, <2>2 DEF Unescapes
<1>3. Unescape(<<Backslash>>) = MalformedValue
  <2> DEFINE field == <<Backslash>>
  <2>1. field \in Seq(C) /\ Len(field) = 1 /\ field[1] = Backslash
    BY DEF IsCharset
  <2> HIDE DEF field
  <2>2. PICK f : Unescapes(f, field, C)
    BY <2>1, UnescapeSteps
  <2>3. f[1] = Part(field, 1, f) /\ Unescape(field) = f[1]
    BY <2>1, <2>2 DEF Unescapes
  <2>4. Part(field, 1, f) = MalformedValue
    BY <2>1 DEF Part
  <2> QED BY <2>3, <2>4 DEF field
<1>4. ASSUME NEW c \in C, c # Backslash
      PROVE  Unescape(<<c>> \o s) =
                IF Unescape(s) = MalformedValue THEN MalformedValue ELSE <<c>> \o Unescape(s)
  <2> DEFINE field == <<c>> \o s
  <2>1. <<c>> \in Seq(C) /\ Len(<<c>>) = 1 /\ Len(s) \in Nat
    BY LenProperties
  <2>2. field \in Seq(C) /\ Len(field) = Len(s) + 1 /\ field[1] = c
        /\ SubSeq(field, 1 + 1, Len(field)) = s
    BY <2>1, ConcatProperties, SuffixOfConcat
  <2> HIDE DEF field
  <2>3. PICK f : Unescapes(f, field, C)
    BY <2>2, UnescapeSteps
  <2>4. f[1] = Part(field, 1, f) /\ Unescape(field) = f[1]
    BY <2>1, <2>2, <2>3 DEF Unescapes
  <2>5. f[1 + 1] = Unescape(s)
    <3>1. 1 \in 0..Len(field)
      BY <2>1, <2>2
    <3> QED BY <2>2, <2>3, <3>1, UnescapeShift, ZenonT(40)
  <2>6. Part(field, 1, f) = IF f[2] = MalformedValue THEN MalformedValue ELSE <<c>> \o f[2]
    BY <1>4, <2>1, <2>2 DEF Part
  <2> QED BY <2>4, <2>5, <2>6 DEF field
<1>5. ASSUME NEW c \in C
      PROVE  Unescape(<<Backslash, c>> \o s) =
                IF Unescape(s) = MalformedValue \/ ~IsEscape(c) THEN MalformedValue
                ELSE <<IF c = "n" THEN Newline ELSE c>> \o Unescape(s)
  <2> DEFINE field == <<Backslash, c>> \o s
  <2>1. <<Backslash, c>> \in Seq(C) /\ Len(<<Backslash, c>>) = 2 /\ Len(s) \in Nat
    BY LenProperties DEF IsCharset
  <2>2. field \in Seq(C) /\ Len(field) = Len(s) + 2 /\ field[1] = Backslash /\ field[2] = c
        /\ SubSeq(field, 2 + 1, Len(field)) = s
    <3>1. field \in Seq(C) /\ Len(field) = Len(s) + 2 /\ SubSeq(field, 2 + 1, Len(field)) = s
      BY <2>1, ConcatProperties, SuffixOfConcat
    <3>2. field[1] = Backslash /\ field[2] = c
      BY <2>1, ConcatProperties
    <3> QED BY <3>1, <3>2
  <2> HIDE DEF field
  <2>3. PICK f : Unescapes(f, field, C)
    BY <2>2, UnescapeSteps
  <2>4. f[1] = Part(field, 1, f) /\ Unescape(field) = f[1]
    BY <2>1, <2>2, <2>3 DEF Unescapes
  <2>5. f[2 + 1] = Unescape(s)
    <3>1. 2 \in 0..Len(field)
      BY <2>1, <2>2
    <3> QED BY <2>2, <2>3, <3>1, UnescapeShift
  <2>6. Part(field, 1, f) = IF f[3] = MalformedValue \/ ~IsEscape(c) THEN MalformedValue
                            ELSE <<IF c = "n" THEN Newline ELSE c>> \o f[3]
    <3>1. ~(1 > Len(field)) /\ 1 < Len(field) /\ Len(field) # 1
      BY <2>1, <2>2
    <3> QED BY <2>2, <3>1 DEF Part
  <2> QED BY <2>4, <2>5, <2>6, SMTT(30) DEF field
<1> QED BY <1>1, <1>2, <1>3, <1>4, <1>5

LEMMA NotMalformed ==
  ASSUME NEW C, IsCharset(C), NEW v \in Seq(C)
  PROVE  v # MalformedValue
<1> SUFFICES ASSUME v = MalformedValue PROVE FALSE
  OBVIOUS
<1>1. Len(v) = 1 /\ v[1] = "malformed"
  BY DEF MalformedValue
<1>2. v[1] \in C
  BY <1>1, ElementOfSeq
<1> QED BY <1>1, <1>2 DEF IsCharset

\* One escaped character in front of the rest of a field.
LEMMA UnescapeOne ==
  ASSUME NEW C, IsCharset(C), NEW c \in C, NEW s \in Seq(C), Unescape(s) # MalformedValue
  PROVE  Unescape(Escaped(c) \o s) = <<c>> \o Unescape(s)
<1>1. CASE c \notin {Backslash, Bar, Newline}
  <2>1. Escaped(c) = <<c>> /\ c # Backslash
    BY <1>1, EscapedChars
  <2> QED BY <2>1, UnescapeFront
<1>2. CASE c \in {Backslash, Bar}
  <2>1. Escaped(c) = <<Backslash, c>>
    BY <1>2, EscapedChars DEF Backslash, Bar, Newline
  <2>2. IsEscape(c) /\ c # "n"
    BY <1>2 DEF IsEscape, Backslash, Bar
  <2>3. Unescape(<<Backslash, c>> \o s) = <<c>> \o Unescape(s)
    BY <2>2, UnescapeFront
  <2> QED BY <2>1, <2>3
<1>3. CASE c = Newline
  <2>1. Escaped(c) = <<Backslash, "n">> /\ "n" \in C
    BY <1>3, EscapedChars DEF Backslash, Bar, Newline, IsCharset
  <2>2. IsEscape("n")
    BY DEF IsEscape
  <2>3. Unescape(<<Backslash, "n">> \o s) = <<Newline>> \o Unescape(s)
    BY <2>1, <2>2, UnescapeFront
  <2> QED BY <1>3, <2>1, <2>3
<1> QED BY <1>1, <1>2, <1>3

LEMMA UnescapeEscape ==
  ASSUME NEW C, IsCharset(C)
  PROVE  \A v \in Seq(C) : Unescape(Escape(v)) = v
<1> DEFINE P == {v \in Seq(C) : \A s \in Seq(C) :
                   Unescape(s) # MalformedValue => Unescape(Escape(v) \o s) = v \o Unescape(s)}
<1>0. \A s \in Seq(C) : Unescape(s) # MalformedValue => Unescape(s) \in Seq(C)
  BY UnescapeFront DEF Fields
<1>1. <<>> \in P
  <2>1. Escape(<<>>) = <<>> /\ <<>> \in Seq(C)
    BY EscapeAppend
  <2>2. \A s \in Seq(C) : <<>> \o s = s
    BY ConcatEmptySeq
  <2> QED BY <1>0, <2>1, <2>2
<1>2. ASSUME NEW v \in Seq(C), NEW c \in C, v \in P PROVE Append(v, c) \in P
  <2>1. Append(v, c) \in Seq(C) /\ Escape(v) \in Seq(C) /\ Escaped(c) \in Seq(C) /\ <<c>> \in Seq(C)
    BY AppendProperties, EscapeAppend, EscapedChars
  <2> SUFFICES ASSUME NEW s \in Seq(C), Unescape(s) # MalformedValue
               PROVE  Unescape(Escape(Append(v, c)) \o s) = Append(v, c) \o Unescape(s)
    BY <2>1
  <2>2. Unescape(s) \in Seq(C)
    BY <1>0
  <2>3. Escape(Append(v, c)) \o s = Escape(v) \o (Escaped(c) \o s)
    <3>1. Escape(Append(v, c)) = Escape(v) \o Escaped(c)
      BY EscapeAppend
    <3> QED BY <2>1, <3>1, ConcatAssociative
  <2>4. Escaped(c) \o s \in Seq(C) /\ <<c>> \o Unescape(s) \in Seq(C)
    BY <2>1, <2>2, ConcatProperties
  <2>5. Unescape(Escaped(c) \o s) = <<c>> \o Unescape(s)
    BY UnescapeOne
  <2>6. Unescape(Escaped(c) \o s) # MalformedValue
    BY <2>4, <2>5, NotMalformed
  <2>7. Unescape(Escape(v) \o (Escaped(c) \o s)) = v \o (<<c>> \o Unescape(s))
    BY <1>2, <2>4, <2>5, <2>6
  <2>8. v \o (<<c>> \o Unescape(s)) = (v \o <<c>>) \o Unescape(s)
    <3> DEFINE one == <<c>>
               u == Unescape(s)
    <3>1. one \in Seq(C) /\ u \in Seq(C)
      BY <2>1, <2>2
    <3> HIDE DEF one, u
    <3>2. v \o (one \o u) = (v \o one) \o u
      BY <3>1, ConcatAssociative, SMTT(30)
    <3> QED BY <3>2 DEF one, u
  <2>9. v \o <<c>> = Append(v, c)
    BY AppendIsConcat
  <2> QED BY <2>3, <2>7, <2>8, <2>9
<1> HIDE DEF P
<1>3. \A v \in Seq(C) : v \in P
  BY <1>1, <1>2, SeqInduct
<1> SUFFICES ASSUME NEW v \in Seq(C) PROVE Unescape(Escape(v)) = v
  OBVIOUS
<1>4. <<>> \in Seq(C) /\ Unescape(<<>>) = <<>> /\ <<>> # MalformedValue
  <2>1. <<>> \in Seq(C)
    OBVIOUS
  <2>2. <<>> # MalformedValue
    BY <2>1, NotMalformed
  <2>3. Unescape(<<>>) = <<>>
    BY <2>1, UnescapeFront
  <2> QED BY <2>1, <2>2, <2>3
<1>5. Unescape(Escape(v) \o <<>>) = v \o <<>>
  <2>1. v \in P
    BY <1>3
  <2>2. \A s \in Seq(C) : Unescape(s) # MalformedValue => Unescape(Escape(v) \o s) = v \o Unescape(s)
    BY <2>1 DEF P
  <2> HIDE DEF P
  <2>3. Unescape(Escape(v) \o <<>>) = v \o Unescape(<<>>)
    BY <1>4, <2>2
  <2> QED BY <1>4, <2>3
<1>6. Escape(v) \in Seq(C)
  BY EscapeAppend
<1>7. Escape(v) \o <<>> = Escape(v) /\ v \o <<>> = v
  BY <1>6, ConcatEmptySeq
<1> QED BY <1>5, <1>7

-----------------------------------------------------------------------------
(* split_escaped_row.                                                      *)

States(C) == [fields : Seq(Fields(C)), raw : Seq(C), escape_pending : BOOLEAN]

LEMMA SplitStepTyped ==
  ASSUME NEW C, IsCharset(C), NEW st \in States(C), NEW c \in C
  PROVE  SplitStep(st, c) \in States(C)
<1>1. st.fields \in Seq(Fields(C)) /\ st.raw \in Seq(C) /\ st.escape_pending \in BOOLEAN
  BY DEF States
<1>2. CASE c = Bar /\ ~st.escape_pending
  <2>1. Unescape(st.raw) \in Fields(C)
    BY <1>1, UnescapeFront
  <2>2. Append(st.fields, Unescape(st.raw)) \in Seq(Fields(C)) /\ <<>> \in Seq(C)
    BY <1>1, <2>1, AppendProperties
  <2> QED BY <1>1, <1>2, <2>2 DEF SplitStep, EndsField, States
<1>3. CASE ~(c = Bar /\ ~st.escape_pending)
  <2>1. Append(st.raw, c) \in Seq(C)
    BY <1>1, AppendProperties
  <2>2. (c = Backslash /\ ~st.escape_pending) \in BOOLEAN
    OBVIOUS
  <2> QED BY <1>1, <1>3, <2>1, <2>2 DEF SplitStep, States
<1> QED BY <1>2, <1>3

SplitsTo(f, start, line, C) ==
    /\ f \in [0..Len(line) -> States(C)] /\ f[0] = start
    /\ \A i \in 1..Len(line) : f[i] = SplitStep(f[i - 1], line[i])
    /\ SplitRun(start, line) = f[Len(line)]

LEMMA SplitRunSteps ==
  ASSUME NEW C, IsCharset(C), NEW start \in States(C), NEW line \in Seq(C)
  PROVE  \E f : SplitsTo(f, start, line, C)
<1> DEFINE N == Len(line)
           V == States(C)
           G == [p \in (1..N) \X V |-> SplitStep(p[2], line[p[1]])]
<1>1. N \in Nat /\ \A i \in 1..N : line[i] \in C
  BY LenProperties, ElementOfSeq
<1>2. \A i \in 1..N : \A v \in V : G[<<i, v>>] = SplitStep(v, line[i])
  OBVIOUS
<1>3. StaysIn(G, N, V)
  <2> SUFFICES ASSUME NEW i \in 1..N, NEW v \in V PROVE G[<<i, v>>] \in V
    BY DEF StaysIn
  <2>1. SplitStep(v, line[i]) \in V
    BY <1>1, SplitStepTyped
  <2> QED BY <1>2, <2>1
<1> HIDE DEF G
<1>4. PICK g : Recurs(g, N, V, start, G)
  BY <1>1, <1>3, Recursion
<1>5. g \in [0..N -> V] /\ g[0] = start /\ \A i \in 1..N : g[i] = SplitStep(g[i - 1], line[i])
  <2>1. g \in [0..N -> V] /\ g[0] = start /\ \A i \in 1..N : g[i] = G[<<i, g[i - 1]>>]
    BY <1>4 DEF Recurs
  <2>2. \A i \in 1..N : g[i - 1] \in V
    BY <1>1, <2>1
  <2> QED BY <1>2, <2>1, <2>2
<1> DEFINE Is(f) == f = [i \in 0..Len(line) |->
                          IF i = 0 THEN start ELSE SplitStep(f[i - 1], line[i])]
           found == CHOOSE f : Is(f)
<1>6. Is(g)
  <2>1. \A i \in 0..N : g[i] = IF i = 0 THEN start ELSE SplitStep(g[i - 1], line[i])
    <3> TAKE i \in 0..N
    <3>1. CASE i = 0
      BY <1>5, <3>1
    <3>2. CASE i # 0
      <4>1. i \in 1..N
        BY <1>1, <3>2
      <4> QED BY <1>5, <3>2, <4>1
    <3> QED BY <3>1, <3>2
  <2> QED BY <1>5, <2>1
<1>7. Is(found)
  <2> HIDE DEF Is
  <2> QED BY <1>6
<1>8. SplitRun(start, line) = found[N]
  BY DEF SplitRun
<1> HIDE DEF found
<1>9. PICK h : h = found /\ h[0] = start /\ \A i \in 1..N : h[i] = SplitStep(h[i - 1], line[i])
  <2>1. 0 \in 0..N /\ \A i \in 1..N : i \in 0..N /\ i # 0
    BY <1>1
  <2> QED BY <1>7, <2>1
<1>10. \A i \in 0..N : h[i] = g[i]
  <2>1. \A i \in 1..N : h[i - 1] = g[i - 1] => h[i] = g[i]
    BY <1>5, <1>9
  <2>2. h[0] = g[0]
    BY <1>5, <1>9
  <2>3. N \in Nat
    BY <1>1
  <2> HIDE DEF N
  <2>4. SameSteps(h, g, N)
    BY <2>1, <2>2 DEF SameSteps
  <2>5. SameUpTo(h, g, N)
    BY <2>3, <2>4, SameRecursion
  <2> QED BY <2>5 DEF SameUpTo
<1>11. SplitRun(start, line) = g[N]
  <2>1. N \in 0..N
    BY <1>1
  <2> QED BY <1>8, <1>9, <1>10, <2>1
<1> QED BY <1>5, <1>11 DEF SplitsTo

LEMMA SplitRunAppend ==
  ASSUME NEW C, IsCharset(C), NEW start \in States(C), NEW line \in Seq(C)
  PROVE  /\ SplitRun(start, <<>>) = start /\ SplitRun(start, line) \in States(C)
         /\ \A c \in C : SplitRun(start, Append(line, c)) = SplitStep(SplitRun(start, line), c)
<1>1. SplitRun(start, <<>>) = start
  <2>1. <<>> \in Seq(C) /\ Len(<<>>) = 0
    BY EmptySeq
  <2>2. PICK f : SplitsTo(f, start, <<>>, C)
    BY <2>1, SplitRunSteps
  <2> QED BY <2>1, <2>2 DEF SplitsTo
<1>2. PICK f : SplitsTo(f, start, line, C)
  BY SplitRunSteps
<1>3. Len(line) \in Nat
  BY LenProperties
<1>4. SplitRun(start, line) \in States(C)
  BY <1>2, <1>3 DEF SplitsTo
<1>5. ASSUME NEW c \in C PROVE SplitRun(start, Append(line, c)) = SplitStep(SplitRun(start, line), c)
  <2> DEFINE more == Append(line, c)
             N == Len(line)
  <2>1. /\ more \in Seq(C) /\ Len(more) = N + 1
        /\ \A i \in 1..N : more[i] = line[i]
        /\ more[N + 1] = c
    BY AppendProperties
  <2> HIDE DEF more
  <2>2. PICK g : SplitsTo(g, start, more, C)
    BY <2>1, SplitRunSteps
  <2>3. /\ f[0] = start /\ g[0] = start
        /\ \A i \in 1..N : f[i] = SplitStep(f[i - 1], line[i])
        /\ \A i \in 1..(N + 1) : g[i] = SplitStep(g[i - 1], more[i])
        /\ SplitRun(start, line) = f[N] /\ SplitRun(start, more) = g[N + 1]
    BY <1>2, <2>1, <2>2 DEF SplitsTo
  <2>4. \A i \in 1..N : f[i - 1] = g[i - 1] => f[i] = g[i]
    <3> TAKE i \in 1..N
    <3>1. i \in 1..(N + 1)
      BY <1>3
    <3> QED BY <2>1, <2>3, <3>1
  <2>5. \A i \in 0..N : f[i] = g[i]
    <3>1. f[0] = g[0]
      BY <2>3
    <3> HIDE DEF N
    <3>2. N \in Nat
      BY <1>3 DEF N
    <3>3. SameSteps(f, g, N)
      BY <2>4, <3>1 DEF SameSteps
    <3>4. SameUpTo(f, g, N)
      BY <3>2, <3>3, SameRecursion
    <3> QED BY <3>4 DEF SameUpTo
  <2>6. g[N + 1] = SplitStep(g[N], c)
    <3>1. N + 1 \in 1..(N + 1) /\ (N + 1) - 1 = N
      BY <1>3
    <3> QED BY <2>1, <2>3, <3>1
  <2>7. f[N] = g[N]
    BY <1>3, <2>5
  <2> QED BY <2>3, <2>6, <2>7 DEF more
<1> QED BY <1>1, <1>4, <1>5

LEMMA SplitRunConcat ==
  ASSUME NEW C, IsCharset(C), NEW start \in States(C), NEW a \in Seq(C)
  PROVE  \A b \in Seq(C) : SplitRun(start, a \o b) = SplitRun(SplitRun(start, a), b)
<1> DEFINE P == {b \in Seq(C) : SplitRun(start, a \o b) = SplitRun(SplitRun(start, a), b)}
<1>1. SplitRun(start, a) \in States(C)
  BY SplitRunAppend
<1>2. <<>> \in P
  <2>1. a \o <<>> = a /\ <<>> \in Seq(C)
    BY ConcatEmptySeq
  <2>2. SplitRun(SplitRun(start, a), <<>>) = SplitRun(start, a)
    BY <1>1, SplitRunAppend
  <2> QED BY <2>1, <2>2
<1>3. ASSUME NEW b \in Seq(C), NEW c \in C, b \in P PROVE Append(b, c) \in P
  <2>1. a \o b \in Seq(C) /\ Append(b, c) \in Seq(C)
    BY ConcatProperties, AppendProperties
  <2>2. a \o Append(b, c) = Append(a \o b, c)
    BY AppendConcat
  <2>3. SplitRun(start, Append(a \o b, c)) = SplitStep(SplitRun(start, a \o b), c)
    <3> DEFINE whole == a \o b
    <3>1. whole \in Seq(C)
      BY <2>1
    <3> HIDE DEF whole
    <3>2. SplitRun(start, Append(whole, c)) = SplitStep(SplitRun(start, whole), c)
      BY <3>1, SplitRunAppend
    <3> QED BY <3>2 DEF whole
  <2>4. SplitRun(SplitRun(start, a), Append(b, c)) = SplitStep(SplitRun(SplitRun(start, a), b), c)
    <3> DEFINE middle == SplitRun(start, a)
    <3>1. middle \in States(C)
      BY <1>1
    <3> HIDE DEF middle
    <3>2. SplitRun(middle, Append(b, c)) = SplitStep(SplitRun(middle, b), c)
      BY <3>1, SplitRunAppend
    <3> QED BY <3>2 DEF middle
  <2>5. SplitRun(start, a \o b) = SplitRun(SplitRun(start, a), b)
    BY <1>3
  <2> QED BY <2>1, <2>2, <2>3, <2>4, <2>5
<1> HIDE DEF P
<1>4. \A b \in Seq(C) : b \in P
  BY <1>2, <1>3, SeqInduct
<1> QED BY <1>4 DEF P

\* A state of the run with no escape begun, and one behind a backslash.
Free(fields, raw) == [fields |-> fields, raw |-> raw, escape_pending |-> FALSE]

Held(fields, raw) == [fields |-> fields, raw |-> raw, escape_pending |-> TRUE]

LEMMA StateTyped ==
  ASSUME NEW C, NEW fields \in Seq(Fields(C)), NEW raw \in Seq(C)
  PROVE  /\ Free(fields, raw) \in States(C) /\ Held(fields, raw) \in States(C)
         /\ Free(fields, raw).fields = fields /\ Free(fields, raw).raw = raw
         /\ Held(fields, raw).fields = fields /\ Held(fields, raw).raw = raw
         /\ ~Free(fields, raw).escape_pending /\ Held(fields, raw).escape_pending
BY DEF States, Free, Held

\* A record with these parts is the state.
IsState(t, fields, raw, pending) ==
    /\ t = [k \in {"fields", "raw", "escape_pending"} |-> t[k]]
    /\ t.fields = fields /\ t.raw = raw /\ t.escape_pending = pending

LEMMA StateIs ==
  ASSUME NEW t, NEW fields, NEW raw
  PROVE  /\ IsState(t, fields, raw, FALSE) => t = Free(fields, raw)
         /\ IsState(t, fields, raw, TRUE) => t = Held(fields, raw)
<1> DEFINE K == {"fields", "raw", "escape_pending"}
<1>1. ASSUME IsState(t, fields, raw, FALSE) PROVE t = Free(fields, raw)
  <2> DEFINE u == Free(fields, raw)
  <2>1. u = [k \in K |-> u[k]] /\ u.fields = fields /\ u.raw = raw /\ u.escape_pending = FALSE
    BY DEF Free
  <2> HIDE DEF u
  <2>2. \A k \in K : t[k] = u[k]
    BY <1>1, <2>1 DEF IsState
  <2>3. t = u
    BY <1>1, <2>1, <2>2 DEF IsState
  <2> QED BY <2>3 DEF u
<1>2. ASSUME IsState(t, fields, raw, TRUE) PROVE t = Held(fields, raw)
  <2> DEFINE u == Held(fields, raw)
  <2>1. u = [k \in K |-> u[k]] /\ u.fields = fields /\ u.raw = raw /\ u.escape_pending = TRUE
    BY DEF Held
  <2> HIDE DEF u
  <2>2. \A k \in K : t[k] = u[k]
    BY <1>2, <2>1 DEF IsState
  <2>3. t = u
    BY <1>2, <2>1, <2>2 DEF IsState
  <2> QED BY <2>3 DEF u
<1> QED BY <1>1, <1>2

\* Running over one character.
LEMMA SplitOne ==
  ASSUME NEW C, IsCharset(C), NEW fields \in Seq(Fields(C)), NEW raw \in Seq(C), NEW c \in C
  PROVE  /\ SplitRun(Held(fields, raw), <<c>>) = Free(fields, Append(raw, c))
         /\ SplitRun(Free(fields, raw), <<c>>) =
               IF c = Bar THEN Free(Append(fields, Unescape(raw)), <<>>)
               ELSE IF c = Backslash THEN Held(fields, Append(raw, c))
               ELSE Free(fields, Append(raw, c))
<1>1. ASSUME NEW st \in States(C) PROVE SplitRun(st, <<c>>) = SplitStep(st, c)
  <2> DEFINE none == <<>>
  <2>1. none \in Seq(C) /\ <<c>> = Append(none, c)
    OBVIOUS
  <2> HIDE DEF none
  <2>2. SplitRun(st, Append(none, c)) = SplitStep(SplitRun(st, none), c)
    BY <2>1, SplitRunAppend
  <2>3. SplitRun(st, none) = st
    BY <2>1, SplitRunAppend DEF none
  <2> QED BY <2>1, <2>2, <2>3
<1>2. Held(fields, raw) \in States(C) /\ Free(fields, raw) \in States(C)
  BY StateTyped
<1>3. SplitStep(Held(fields, raw), c) = Free(fields, Append(raw, c))
  BY DEF SplitStep, Free, Held
<1>4. SplitStep(Free(fields, raw), c) =
        IF c = Bar THEN Free(Append(fields, Unescape(raw)), <<>>)
        ELSE IF c = Backslash THEN Held(fields, Append(raw, c))
        ELSE Free(fields, Append(raw, c))
  <2> DEFINE st == Free(fields, raw)
             t == SplitStep(st, c)
  <2>1. st = [k \in {"fields", "raw", "escape_pending"} |-> st[k]]
    BY DEF Free
  <2>2. st.fields = fields /\ st.raw = raw /\ st.escape_pending = FALSE
    BY DEF Free
  <2>3. DOMAIN st = {"fields", "raw", "escape_pending"}
    BY DEF Free
  <2> HIDE DEF st
  <2>4. CASE c = Bar
    <3>1. t = EndsField(st)
      BY <2>2, <2>4 DEF SplitStep
    <3>2. IsState(EndsField(st), Append(fields, Unescape(raw)), <<>>, FALSE)
      BY <2>2, <2>3 DEF EndsField, IsState
    <3>3. EndsField(st) = Free(Append(fields, Unescape(raw)), <<>>)
      BY <3>2, StateIs
    <3> QED BY <2>4, <3>1, <3>3 DEF st
  <2>5. CASE c = Backslash
    <3>1. c # Bar
      BY <2>5 DEF Bar, Backslash
    <3>2. IsState(t, fields, Append(raw, c), TRUE)
      BY <2>2, <2>3, <2>5, <3>1 DEF SplitStep, IsState
    <3> HIDE DEF t
    <3>3. t = Held(fields, Append(raw, c))
      BY <3>2, StateIs
    <3> QED BY <2>5, <3>1, <3>3 DEF st, t
  <2>6. CASE c # Bar /\ c # Backslash
    <3>1. IsState(t, fields, Append(raw, c), FALSE)
      BY <2>2, <2>3, <2>6 DEF SplitStep, IsState
    <3> HIDE DEF t
    <3>2. t = Free(fields, Append(raw, c))
      BY <3>1, StateIs
    <3> QED BY <2>6, <3>2 DEF st, t
  <2> QED BY <2>4, <2>5, <2>6
<1>5. /\ SplitRun(Held(fields, raw), <<c>>) = SplitStep(Held(fields, raw), c)
      /\ SplitRun(Free(fields, raw), <<c>>) = SplitStep(Free(fields, raw), c)
  BY <1>1, <1>2
<1> QED BY <1>3, <1>4, <1>5

\* An escaped character is collected as it stands, and so is an escaped value.
LEMMA SplitEscaped ==
  ASSUME NEW C, IsCharset(C), NEW fields \in Seq(Fields(C)), NEW raw \in Seq(C), NEW c \in C
  PROVE  SplitRun(Free(fields, raw), Escaped(c)) = Free(fields, raw \o Escaped(c))
<1> DEFINE st == Free(fields, raw)
<1>1. st \in States(C)
  BY StateTyped
<1>2. ASSUME NEW s \in Seq(C), NEW d \in C PROVE Append(s, d) = s \o <<d>> /\ Append(s, d) \in Seq(C)
  BY AppendIsConcat, AppendProperties
<1>3. CASE c \notin {Backslash, Bar, Newline}
  <2>1. Escaped(c) = <<c>>
    BY <1>3, EscapedChars
  <2>2. SplitRun(st, <<c>>) = Free(fields, Append(raw, c))
    BY <1>3, SplitOne
  <2> QED BY <1>2, <2>1, <2>2
<1>4. ASSUME NEW d \in C, Escaped(c) = <<Backslash, d>>
      PROVE  SplitRun(st, Escaped(c)) = Free(fields, raw \o Escaped(c))
  <2>1. Backslash \in C /\ Backslash # Bar
    BY DEF IsCharset, Backslash, Bar
  <2> DEFINE raw1 == Append(raw, Backslash)
             x == <<Backslash>>
             y == <<d>>
  <2>2. raw1 \in Seq(C)
    BY <2>1, AppendProperties
  <2>3. x \in Seq(C) /\ y \in Seq(C) /\ <<Backslash, d>> = x \o y
    BY <2>1
  <2>4. SplitRun(st, x) = Held(fields, raw1)
    BY <2>1, SplitOne
  <2>5. SplitRun(Held(fields, raw1), y) = Free(fields, Append(raw1, d))
    <3> HIDE DEF raw1
    <3> QED BY <2>2, SplitOne
  <2>6. Append(raw1, d) = (raw \o x) \o y
    BY <1>2, <2>1, <2>2
  <2> HIDE DEF x, y, st, raw1
  <2>7. SplitRun(st, x \o y) = SplitRun(SplitRun(st, x), y)
    BY <1>1, <2>3, SplitRunConcat
  <2>8. (raw \o x) \o y = raw \o (x \o y)
    BY <2>3, ConcatAssociative
  <2> QED BY <1>4, <2>3, <2>4, <2>5, <2>6, <2>7, <2>8
<1>5. CASE c \in {Backslash, Bar}
  <2>1. Escaped(c) = <<Backslash, c>>
    BY <1>5, EscapedChars DEF Backslash, Bar, Newline
  <2> QED BY <1>4, <2>1
<1>6. CASE c = Newline
  <2>1. Escaped(c) = <<Backslash, "n">> /\ "n" \in C
    BY <1>6, EscapedChars DEF Backslash, Bar, Newline, IsCharset
  <2> QED BY <1>4, <2>1
<1> QED BY <1>3, <1>5, <1>6

LEMMA SplitEscape ==
  ASSUME NEW C, IsCharset(C), NEW fields \in Seq(Fields(C)), NEW raw \in Seq(C)
  PROVE  \A v \in Seq(C) :
            SplitRun(Free(fields, raw), Escape(v)) = Free(fields, raw \o Escape(v))
<1> DEFINE st == Free(fields, raw)
           P == {v \in Seq(C) : SplitRun(st, Escape(v)) = Free(fields, raw \o Escape(v))}
<1>1. st \in States(C)
  BY StateTyped
<1>2. <<>> \in P
  <2>1. <<>> \in Seq(C)
    OBVIOUS
  <2>2. Escape(<<>>) = <<>> /\ raw \o <<>> = raw
    BY EscapeAppend, ConcatEmptySeq
  <2>3. SplitRun(st, <<>>) = st
    <3> HIDE DEF st
    <3> QED BY <1>1, <2>1, SplitRunAppend
  <2> QED BY <2>1, <2>2, <2>3
<1>3. ASSUME NEW v \in Seq(C), NEW c \in C, v \in P PROVE Append(v, c) \in P
  <2> DEFINE e == Escape(v)
             x == Escaped(c)
             raw1 == raw \o e
  <2>1. e \in Seq(C) /\ x \in Seq(C) /\ Append(v, c) \in Seq(C) /\ Escape(Append(v, c)) = e \o x
    BY EscapeAppend, EscapedChars, AppendProperties
  <2>2. SplitRun(st, e) = Free(fields, raw1)
    BY <1>3
  <2> HIDE DEF e, st
  <2>3. raw1 \in Seq(C)
    BY <2>1, ConcatProperties
  <2> HIDE DEF raw1
  <2>4. SplitRun(Free(fields, raw1), x) = Free(fields, raw1 \o x)
    BY <2>3, SplitEscaped
  <2> HIDE DEF x
  <2>5. SplitRun(st, e \o x) = SplitRun(SplitRun(st, e), x)
    BY <1>1, <2>1, SplitRunConcat
  <2>6. raw1 \o x = raw \o (e \o x)
    <3>1. Regroups(raw, e, x)
      BY <2>1, Regroup
    <3> QED BY <3>1 DEF Regroups, raw1
  <2> QED BY <2>1, <2>2, <2>4, <2>5, <2>6
<1> HIDE DEF P
<1>4. \A v \in Seq(C) : v \in P
  BY <1>2, <1>3, SeqInduct
<1> QED BY <1>4 DEF P, st

-----------------------------------------------------------------------------
(* A row as a line.                                                        *)

\* A line without its newline.
Body(row) ==
    FlattenSeq([i \in DOMAIN row |-> IF i = 1 THEN Escape(row[i]) ELSE <<Bar>> \o Escape(row[i])])

\* The bytes that may stand before the newline.
InLine(C) == C \ {Newline}

LEMMA EscapeInLine ==
  ASSUME NEW C, IsCharset(C)
  PROVE  \A v \in Seq(C) : Escape(v) \in Seq(InLine(C))
<1> DEFINE P == {v \in Seq(C) : Escape(v) \in Seq(InLine(C))}
<1>1. <<>> \in P
  <2>1. Escape(<<>>) = <<>> /\ <<>> \in Seq(C) /\ <<>> \in Seq(InLine(C))
    BY EscapeAppend
  <2> QED BY <2>1
<1>2. ASSUME NEW v \in Seq(C), NEW c \in C, v \in P PROVE Append(v, c) \in P
  <2>1. Escaped(c) \in Seq(InLine(C))
    <3>1. Backslash \in InLine(C) /\ "n" \in InLine(C)
      BY DEF InLine, IsCharset, Backslash, Newline
    <3>2. c # Newline => c \in InLine(C)
      BY DEF InLine
    <3>3. CASE c = Newline
      <4>1. Escaped(c) = <<Backslash, "n">>
        BY <3>3, EscapedChars DEF Backslash, Bar, Newline
      <4> QED BY <3>1, <4>1
    <3>4. CASE c # Newline
      <4>1. Escaped(c) = <<c>> \/ Escaped(c) = <<Backslash, c>>
        BY <3>4, EscapedChars
      <4>2. c \in InLine(C)
        BY <3>2, <3>4
      <4>3. <<c>> \in Seq(InLine(C)) /\ <<Backslash, c>> \in Seq(InLine(C))
        BY <3>1, <4>2
      <4> QED BY <4>1, <4>3
    <3> QED BY <3>3, <3>4
  <2>2. Escape(Append(v, c)) = Escape(v) \o Escaped(c) /\ Append(v, c) \in Seq(C)
    BY EscapeAppend, AppendProperties
  <2>3. Escape(v) \o Escaped(c) \in Seq(InLine(C))
    BY <1>2, <2>1, ConcatProperties
  <2> QED BY <2>2, <2>3
<1> HIDE DEF P
<1>3. \A v \in Seq(C) : v \in P
  BY <1>1, <1>2, SeqInduct
<1> QED BY <1>3 DEF P

\* One more value is a bar and the value, but for the first.
LEMMA BodyAppend ==
  ASSUME NEW C, IsCharset(C)
  PROVE  /\ Body(<<>>) = <<>>
         /\ \A row \in Seq(Seq(C)) : Body(row) \in Seq(InLine(C))
         /\ \A row \in Seq(Seq(C)) : \A v \in Seq(C) :
               Body(Append(row, v)) =
                  IF row = <<>> THEN Escape(v) ELSE Body(row) \o (<<Bar>> \o Escape(v))
<1> DEFINE D == InLine(C)
           part(v, i) == IF i = 1 THEN Escape(v) ELSE <<Bar>> \o Escape(v)
           parts(row) == [i \in DOMAIN row |-> part(row[i], i)]
<1>0. \A row : Body(row) = FlattenSeq(parts(row))
  BY DEF Body
<1>1. \A v \in Seq(C) : \A i : part(v, i) \in Seq(D)
  <2> TAKE v \in Seq(C)
  <2>1. Escape(v) \in Seq(D)
    BY EscapeInLine
  <2>2. <<Bar>> \in Seq(D)
    BY DEF InLine, IsCharset, Bar, Newline
  <2>3. <<Bar>> \o Escape(v) \in Seq(D)
    BY <2>1, <2>2, ConcatProperties
  <2> QED BY <2>1, <2>3
<1> HIDE DEF part
<1>2. \A row \in Seq(Seq(C)) : parts(row) \in Seq(Seq(D)) /\ Len(parts(row)) = Len(row)
  <2> TAKE row \in Seq(Seq(C))
  <2>1. Len(row) \in Nat /\ DOMAIN row = 1..Len(row) /\ \A i \in 1..Len(row) : row[i] \in Seq(C)
    BY LenProperties, ElementOfSeq
  <2> DEFINE p == parts(row)
             E == Seq(D)
  <2>2. p \in [1..Len(row) -> E]
    BY <1>1, <2>1
  <2> HIDE DEF p, E
  <2>3. p \in Seq(E) /\ Len(p) = Len(row)
    BY <2>1, <2>2, FunctionIsSeq
  <2> QED BY <2>3 DEF p, E
<1>3. ASSUME NEW row \in Seq(Seq(C)), NEW v \in Seq(C)
      PROVE  parts(Append(row, v)) = Append(parts(row), part(v, Len(row) + 1))
  <2> DEFINE s == parts(Append(row, v))
             t == Append(parts(row), part(v, Len(row) + 1))
  <2>1. Append(row, v) \in Seq(Seq(C)) /\ part(v, Len(row) + 1) \in Seq(D)
    BY <1>1, AppendProperties
  <2>2. /\ Len(Append(row, v)) = Len(row) + 1 /\ DOMAIN Append(row, v) = 1..(Len(row) + 1)
        /\ \A i \in 1..Len(row) : Append(row, v)[i] = row[i]
        /\ Append(row, v)[Len(row) + 1] = v /\ DOMAIN row = 1..Len(row) /\ Len(row) \in Nat
    BY AppendAt
  <2>3. /\ s \in Seq(Seq(D)) /\ Len(s) = Len(row) + 1
        /\ \A i \in 1..(Len(row) + 1) : s[i] = part(Append(row, v)[i], i)
    BY <1>2, <2>1, <2>2
  <2>4. /\ parts(row) \in Seq(Seq(D)) /\ Len(parts(row)) = Len(row)
        /\ \A i \in 1..Len(row) : parts(row)[i] = part(row[i], i)
    BY <1>2, <2>2
  <2> HIDE DEF parts
  <2>5. /\ t \in Seq(Seq(D)) /\ Len(t) = Len(row) + 1
        /\ \A i \in 1..Len(row) : t[i] = parts(row)[i]
        /\ t[Len(row) + 1] = part(v, Len(row) + 1)
    BY <2>1, <2>4, AppendProperties
  <2> HIDE DEF s, t
  <2>6. \A i \in 1..Len(s) : s[i] = t[i]
    <3> TAKE i \in 1..Len(s)
    <3>1. CASE i = Len(row) + 1
      BY <2>2, <2>3, <2>5, <3>1
    <3>2. CASE i # Len(row) + 1
      <4>1. i \in 1..Len(row) /\ i \in 1..(Len(row) + 1)
        BY <2>2, <2>3, <3>2
      <4> QED BY <2>2, <2>3, <2>4, <2>5, <4>1
    <3> QED BY <3>1, <3>2
  <2>7. s = t
    <3>1. Len(s) = Len(t)
      BY <2>3, <2>5
    <3> QED BY <2>3, <2>5, <2>6, <3>1, SeqEqual
  <2> QED BY <2>7 DEF s, t
<1>4. Body(<<>>) = <<>>
  <2>1. parts(<<>>) = <<>>
    OBVIOUS
  <2> QED BY <1>0, <2>1, FlattenAppend
<1> HIDE DEF parts, D
<1>5. \A row \in Seq(Seq(C)) : Body(row) \in Seq(D)
  BY <1>0, <1>2, FlattenAppend
<1>6. ASSUME NEW row \in Seq(Seq(C)), NEW v \in Seq(C)
      PROVE  Body(Append(row, v)) =
                IF row = <<>> THEN Escape(v) ELSE Body(row) \o (<<Bar>> \o Escape(v))
  <2> DEFINE x == part(v, Len(row) + 1)
  <2>1. x \in Seq(D) /\ parts(row) \in Seq(Seq(D))
    BY <1>1, <1>2
  <2>2. Body(Append(row, v)) = FlattenSeq(Append(parts(row), x))
    BY <1>0, <1>3
  <2> HIDE DEF x
  <2>3. FlattenSeq(Append(parts(row), x)) = Body(row) \o x
    BY <1>0, <2>1, FlattenAppend
  <2>4. CASE row = <<>>
    <3>1. x = Escape(v)
      BY <2>4 DEF x, part
    <3>2. <<>> \o x = x
      BY <2>1, ConcatEmptySeq
    <3> QED BY <1>4, <2>2, <2>3, <2>4, <3>1, <3>2
  <2>5. CASE row # <<>>
    <3>1. Len(row) + 1 # 1
      BY <2>5, LenProperties, EmptySeq
    <3>2. x = <<Bar>> \o Escape(v)
      BY <3>1 DEF x, part
    <3> QED BY <2>2, <2>3, <2>5, <3>2
  <2> QED BY <2>4, <2>5
<1> QED BY <1>4, <1>5, <1>6 DEF D

LEMMA BarTyped ==
  ASSUME NEW C, IsCharset(C)
  PROVE  /\ Bar \in C /\ Bar \in InLine(C) /\ <<Bar>> \in Seq(C) /\ <<Bar>> \in Seq(InLine(C))
         /\ \A s \in Seq(InLine(C)) : s \in Seq(C)
<1>1. Bar \in C /\ Bar \in InLine(C)
  BY DEF IsCharset, InLine, Bar, Newline
<1>2. InLine(C) \subseteq C
  BY DEF InLine
<1>3. \A s \in Seq(InLine(C)) : s \in Seq(C)
  BY <1>2, SeqMonotonic
<1> QED BY <1>1, <1>3

\* The values that make up the line are those split_escaped_row finds; the last one is
\* still being collected at the end.
LEMMA SplitBody ==
  ASSUME NEW C, IsCharset(C)
  PROVE  \A row \in Seq(Seq(C)) : \A v \in Seq(C) :
            SplitRun(SplitStart, Body(Append(row, v))) = Free(row, Escape(v))
<1> DEFINE P == {row \in Seq(Seq(C)) : \A v \in Seq(C) :
                   SplitRun(SplitStart, Body(Append(row, v))) = Free(row, Escape(v))}
           A == Seq(C)
<1>1. SplitStart = Free(<<>>, <<>>)
  BY DEF SplitStart, Free
<1>2. \A row \in Seq(A) : row \in Seq(Fields(C))
  <2>1. A \subseteq Fields(C)
    BY DEF Fields
  <2> HIDE DEF A
  <2> QED BY <2>1, SeqMonotonic
<1>3. \A v \in A : Escape(v) \in Seq(C)
  BY EscapeAppend
<1>4. <<>> \in P
  <2>1. <<>> \in Seq(Seq(C)) /\ <<>> \in Seq(C) /\ <<>> \in Seq(Fields(C))
    OBVIOUS
  <2> SUFFICES ASSUME NEW v \in Seq(C)
               PROVE  SplitRun(SplitStart, Body(Append(<<>>, v))) = Free(<<>>, Escape(v))
    BY <2>1
  <2>2. Body(Append(<<>>, v)) = Escape(v)
    BY <2>1, BodyAppend
  <2>3. SplitRun(Free(<<>>, <<>>), Escape(v)) = Free(<<>>, <<>> \o Escape(v))
    BY <2>1, SplitEscape
  <2>4. <<>> \o Escape(v) = Escape(v)
    BY <1>3, ConcatEmptySeq
  <2> QED BY <1>1, <2>2, <2>3, <2>4
<1>5. ASSUME NEW row \in Seq(A), NEW v \in A, row \in P PROVE Append(row, v) \in P
  <2> DEFINE more == Append(row, v)
             e == Escape(v)
  <2>1. more \in Seq(A) /\ more # <<>>
    BY AppendProperties
  <2>2. SplitRun(SplitStart, Body(more)) = Free(row, e)
    BY <1>5
  <2>3. Body(more) \in Seq(C) /\ e \in Seq(C)
    BY <1>3, <2>1, BodyAppend, BarTyped
  <2>4. Unescape(e) = v
    BY UnescapeEscape
  <2>5. row \in Seq(Fields(C)) /\ more \in Seq(Fields(C))
    BY <1>2, <2>1
  <2> SUFFICES ASSUME NEW w \in Seq(C)
               PROVE  SplitRun(SplitStart, Body(Append(more, w))) = Free(more, Escape(w))
    BY <2>1
  <2> DEFINE line == Body(more)
             bar == <<Bar>>
             f == Escape(w)
  <2>6. Body(Append(more, w)) = line \o (bar \o f)
    <3> HIDE DEF more
    <3> QED BY <2>1, BodyAppend
  <2>7. line \in Seq(C) /\ bar \in Seq(C) /\ f \in Seq(C) /\ bar \o f \in Seq(C)
    <3>1. bar \in Seq(C) /\ f \in Seq(C)
      BY <1>3, BarTyped
    <3> HIDE DEF bar, f
    <3> QED BY <2>3, <3>1, ConcatProperties
  <2>8. SplitStart \in States(C)
    <3>1. <<>> \in Seq(C) /\ <<>> \in Seq(Fields(C))
      OBVIOUS
    <3> QED BY <1>1, <3>1, StateTyped
  <2>9. SplitRun(Free(row, e), bar) = Free(more, <<>>)
    <3>1. Bar \in C
      BY BarTyped
    <3> HIDE DEF e
    <3>2. SplitRun(Free(row, e), <<Bar>>) = Free(Append(row, Unescape(e)), <<>>)
      BY <2>3, <2>5, <3>1, SplitOne
    <3> QED BY <2>4, <3>2
  <2>10. SplitRun(Free(more, <<>>), f) = Free(more, f)
    <3>1. <<>> \in Seq(C)
      OBVIOUS
    <3> HIDE DEF more
    <3>2. SplitRun(Free(more, <<>>), f) = Free(more, <<>> \o f)
      BY <2>5, <3>1, SplitEscape
    <3>3. <<>> \o f = f
      BY <2>7, ConcatEmptySeq
    <3> QED BY <3>2, <3>3
  <2>11. Free(row, e) \in States(C)
    <3> HIDE DEF e
    <3> QED BY <2>3, <2>5, StateTyped
  <2> HIDE DEF line, bar, f, more, e
  <2>12. SplitRun(SplitStart, line \o (bar \o f)) = SplitRun(SplitRun(SplitStart, line), bar \o f)
    <3> DEFINE rest == bar \o f
    <3>1. rest \in Seq(C)
      BY <2>7
    <3> HIDE DEF rest
    <3>2. SplitRun(SplitStart, line \o rest) = SplitRun(SplitRun(SplitStart, line), rest)
      BY <2>7, <2>8, <3>1, SplitRunConcat
    <3> QED BY <3>2 DEF rest
  <2>13. SplitRun(Free(row, e), bar \o f) = SplitRun(SplitRun(Free(row, e), bar), f)
    BY <2>7, <2>11, SplitRunConcat
  <2>14. SplitRun(SplitStart, line) = Free(row, e)
    BY <2>2 DEF line
  <2> QED BY <2>6, <2>9, <2>10, <2>12, <2>13, <2>14 DEF f
<1> HIDE DEF P, A
<1>6. \A row \in Seq(A) : row \in P
  BY <1>4, <1>5, SeqInduct
<1> QED BY <1>6 DEF P, A

\* A row is read from its own line.
LEMMA ParseBody ==
  ASSUME NEW C, IsCharset(C), NEW row \in Seq(Seq(C)), row # <<>>
  PROVE  Split(Body(row)) = row /\ ParseLine(Body(row), Len(row)) = row
<1>1. /\ Len(row) \in Nat \ {0} /\ DOMAIN row = 1..Len(row) /\ \A i \in 1..Len(row) : row[i] \in Seq(C)
      /\ row = [i \in 1..Len(row) |-> row[i]]
  BY LenProperties, ElementOfSeq, EmptySeq
<1>2. MalformedValue \notin ToSet(row)
  <2>1. \A v \in ToSet(row) : v \in Seq(C)
    BY <1>1 DEF ToSet
  <2> QED BY <2>1, NotMalformed
<1>3. row # MalformedRow
  <2>1. MalformedRow[1] = MalformedValue /\ 1 \in 1..Len(row)
    BY <1>1 DEF MalformedRow
  <2> QED BY <1>1, <2>1, NotMalformed
<1>4. PICK init \in Seq(Seq(C)), v \in Seq(C) : row = Append(init, v)
  <2> DEFINE A == Seq(C)
  <2>1. row \in Seq(A) /\ row # <<>>
    OBVIOUS
  <2> HIDE DEF A
  <2>2. \E s \in Seq(A), e \in A : row = Append(s, e)
    BY <2>1, SequenceEmptyOrAppend
  <2> QED BY <2>2 DEF A
<1>5. SplitRun(SplitStart, Body(row)) = Free(init, Escape(v))
  BY <1>4, SplitBody
<1>6. EndsField(Free(init, Escape(v))).fields = row
  <2>1. Unescape(Escape(v)) = v
    BY UnescapeEscape
  <2> QED BY <1>4, <2>1 DEF EndsField, Free
<1>7. ~Free(init, Escape(v)).escape_pending
  BY DEF Free
<1>8. Split(Body(row)) = row
  BY <1>2, <1>5, <1>6, <1>7 DEF Split
<1>9. Normalize(row, Len(row)) = row
  <2>1. \A i \in 1..Len(row) : (IF i \in DOMAIN row THEN row[i] ELSE <<>>) = row[i]
    BY <1>1
  <2> QED BY <1>1, <2>1 DEF Normalize
<1> QED BY <1>3, <1>8, <1>9 DEF ParseLine

-----------------------------------------------------------------------------
(* read_line.                                                              *)

LEMMA LastAppend ==
  ASSUME NEW A, NEW s \in Seq(A), NEW e \in A
  PROVE  /\ Front(Append(s, e)) = s /\ Last(Append(s, e)) = e
         /\ Append(s, e) # <<>> /\ Append(s, e) \in Seq(A)
<1> DEFINE t == Append(s, e)
<1>1. /\ t \in Seq(A) /\ t # <<>> /\ Len(t) = Len(s) + 1 /\ Len(s) \in Nat
      /\ \A i \in 1..Len(s) : t[i] = s[i]
      /\ t[Len(s) + 1] = e
  BY AppendProperties, LenProperties
<1> HIDE DEF t
<1>2. Front(t) = s
  <2>1. Front(t) = SubSeq(t, 1, Len(s))
    BY <1>1 DEF Front
  <2>2. /\ SubSeq(t, 1, Len(s)) \in Seq(A) /\ Len(SubSeq(t, 1, Len(s))) = Len(s)
        /\ \A i \in 1..Len(s) : SubSeq(t, 1, Len(s))[i] = t[i]
    <3>1. \A i \in 1..Len(s) : t[i] \in A
      BY <1>1, ElementOfSeq
    <3>2. /\ SubSeq(t, 1, Len(s)) \in Seq(A)
          /\ Len(SubSeq(t, 1, Len(s))) = IF 1 <= Len(s) THEN Len(s) - 1 + 1 ELSE 0
          /\ \A i \in 1..(Len(s) - 1 + 1) : SubSeq(t, 1, Len(s))[i] = t[1 + i - 1]
      BY <1>1, <3>1, SubSeqProperties
    <3> HIDE DEF t
    <3> QED BY <1>1, <3>2
  <2>3. SubSeq(t, 1, Len(s)) = s
    BY <1>1, <2>2, SeqEqual
  <2> QED BY <2>1, <2>3
<1>3. Last(t) = e
  BY <1>1 DEF Last
<1> QED BY <1>1, <1>2, <1>3 DEF t

LEMMA WithoutReturnTyped ==
  ASSUME NEW C, NEW v \in Seq(C)
  PROVE  WithoutReturn(v) \in Seq(C)
<1>1. CASE v = <<>>
  BY <1>1 DEF WithoutReturn
<1>2. CASE v # <<>>
  <2>1. PICK u \in Seq(C), c \in C : v = Append(u, c)
    BY <1>2, SequenceEmptyOrAppend
  <2>2. Front(v) = u
    BY <2>1, LastAppend
  <2> QED BY <2>2 DEF WithoutReturn
<1> QED BY <1>1, <1>2

\* Only the last part of a line can lose a carriage return.
LEMMA WithoutReturnConcat ==
  ASSUME NEW C, NEW a \in Seq(C), NEW b \in Seq(C), a = <<>> \/ Last(a) # Return
  PROVE  WithoutReturn(a \o b) = a \o WithoutReturn(b)
<1>1. CASE b = <<>>
  <2>1. a \o <<>> = a /\ WithoutReturn(<<>>) = <<>>
    BY ConcatEmptySeq DEF WithoutReturn
  <2>2. WithoutReturn(a) = a
    BY DEF WithoutReturn
  <2> QED BY <1>1, <2>1, <2>2
<1>2. CASE b # <<>>
  <2>1. PICK u \in Seq(C), c \in C : b = Append(u, c)
    BY <1>2, SequenceEmptyOrAppend
  <2> DEFINE w == a \o u
  <2>2. a \o b = Append(w, c) /\ w \in Seq(C)
    BY <2>1, AppendConcat, ConcatProperties
  <2> HIDE DEF w
  <2>3. Front(Append(w, c)) = w /\ Last(Append(w, c)) = c /\ Append(w, c) # <<>>
    BY <2>2, LastAppend
  <2>4. Front(b) = u /\ Last(b) = c
    BY <2>1, LastAppend
  <2>5. CASE c = Return
    <3>1. WithoutReturn(a \o b) = w
      BY <2>2, <2>3, <2>5 DEF WithoutReturn
    <3>2. WithoutReturn(b) = u
      BY <1>2, <2>4, <2>5 DEF WithoutReturn
    <3> QED BY <3>1, <3>2 DEF w
  <2>6. CASE c # Return
    <3>1. WithoutReturn(a \o b) = a \o b
      BY <2>2, <2>3, <2>6 DEF WithoutReturn
    <3>2. WithoutReturn(b) = b
      BY <2>4, <2>6 DEF WithoutReturn
    <3> QED BY <3>1, <3>2
  <2> QED BY <2>5, <2>6
<1> QED BY <1>1, <1>2

\* A carriage return is written as it is.
LEMMA WithoutReturnEscape ==
  ASSUME NEW C, IsCharset(C), NEW v \in Seq(C)
  PROVE  WithoutReturn(Escape(v)) = Escape(WithoutReturn(v))
<1>1. CASE v = <<>>
  <2>1. Escape(<<>>) = <<>>
    BY EscapeAppend
  <2> QED BY <1>1, <2>1 DEF WithoutReturn
<1>2. CASE v # <<>>
  <2>1. PICK u \in Seq(C), c \in C : v = Append(u, c)
    BY <1>2, SequenceEmptyOrAppend
  <2>2. Escape(v) = Escape(u) \o Escaped(c) /\ Escape(u) \in Seq(C) /\ Escaped(c) \in Seq(C)
    BY <2>1, EscapeAppend, EscapedChars
  <2>3. Front(v) = u /\ Last(v) = c
    BY <2>1, LastAppend
  <2>4. ASSUME NEW d \in C, NEW w \in Seq(C), Escape(v) = w \o <<d>>
        PROVE  Escape(v) # <<>> /\ Last(Escape(v)) = d /\ Front(Escape(v)) = w
    <3>1. w \o <<d>> = Append(w, d)
      BY AppendIsConcat
    <3> QED BY <2>4, <3>1, LastAppend
  <2>5. CASE c = Return
    <3>1. c \notin {Backslash, Bar, Newline}
      BY <2>5 DEF Backslash, Bar, Newline, Return
    <3>2. Escaped(c) = <<c>>
      BY <3>1, EscapedChars
    <3>3. Escape(v) # <<>> /\ Last(Escape(v)) = c /\ Front(Escape(v)) = Escape(u)
      BY <2>2, <2>4, <3>2
    <3>4. WithoutReturn(Escape(v)) = Escape(u)
      BY <2>5, <3>3 DEF WithoutReturn
    <3>5. WithoutReturn(v) = u
      BY <1>2, <2>3, <2>5 DEF WithoutReturn
    <3> QED BY <3>4, <3>5
  <2>6. CASE c # Return
    <3>1. WithoutReturn(v) = v
      BY <2>3, <2>6 DEF WithoutReturn
    <3>2. PICK w \in Seq(C), d \in C : Escaped(c) = w \o <<d>> /\ d # Return
      <4>1. CASE c \notin {Backslash, Bar, Newline}
        <5>1. Escaped(c) = <<c>> /\ <<>> \in Seq(C)
          BY <4>1, EscapedChars
        <5>2. <<>> \o <<c>> = <<c>>
          OBVIOUS
        <5> QED BY <2>6, <5>1, <5>2
      <4>2. ASSUME NEW d \in C, d # Return, Escaped(c) = <<Backslash, d>>
            PROVE  \E w \in Seq(C), e \in C : Escaped(c) = w \o <<e>> /\ e # Return
        <5>1. <<Backslash>> \in Seq(C) /\ <<Backslash, d>> = <<Backslash>> \o <<d>>
          BY DEF IsCharset
        <5> QED BY <4>2, <5>1
      <4>3. CASE c \in {Backslash, Bar}
        <5>1. Escaped(c) = <<Backslash, c>>
          BY <4>3, EscapedChars DEF Backslash, Bar, Newline
        <5> QED BY <2>6, <4>2, <5>1
      <4>4. CASE c = Newline
        <5>1. Escaped(c) = <<Backslash, "n">> /\ "n" \in C /\ "n" # Return
          BY <4>4, EscapedChars DEF Backslash, Bar, Newline, IsCharset, Return
        <5> QED BY <4>2, <5>1
      <4> QED BY <4>1, <4>3, <4>4
    <3>3. Escape(v) = (Escape(u) \o w) \o <<d>> /\ Escape(u) \o w \in Seq(C)
      <4> DEFINE x == Escape(u)
                 y == <<d>>
      <4>1. x \in Seq(C) /\ y \in Seq(C)
        BY <2>2
      <4> HIDE DEF x, y
      <4>2. (x \o w) \o y = x \o (w \o y)
        <5>1. Regroups(x, w, y)
          BY <4>1, Regroup
        <5> QED BY <5>1 DEF Regroups
      <4>3. x \o w \in Seq(C)
        BY <4>1, ConcatProperties
      <4> QED BY <2>2, <3>2, <4>2, <4>3 DEF x, y
    <3>4. Last(Escape(v)) = d
      BY <2>4, <3>3
    <3>5. WithoutReturn(Escape(v)) = Escape(v)
      BY <3>2, <3>4 DEF WithoutReturn
    <3> QED BY <3>1, <3>5
  <2> QED BY <2>5, <2>6
<1> QED BY <1>1, <1>2

\* A row as its own line gives it back: the last value without a carriage return.
WithoutLastReturn(row) == [row EXCEPT ![Len(row)] = WithoutReturn(@)]

LEMMA ParseReadBody ==
  ASSUME NEW C, IsCharset(C), NEW row \in Seq(Seq(C)), row # <<>>
  PROVE  ParseLine(WithoutReturn(Body(row)), Len(row)) = WithoutLastReturn(row)
<1> DEFINE A == Seq(C)
<1>1. PICK init \in Seq(A), v \in A : row = Append(init, v)
  <2> HIDE DEF A
  <2>1. row \in Seq(A) /\ row # <<>>
    BY DEF A
  <2> QED BY <2>1, SequenceEmptyOrAppend
<1> DEFINE u == WithoutReturn(v)
           read == Append(init, u)
<1>2. u \in A
  BY WithoutReturnTyped
<1>3. read \in Seq(A) /\ read # <<>> /\ Len(read) = Len(row)
  <2> HIDE DEF A, u
  <2> QED BY <1>1, <1>2, AppendProperties
<1>4. WithoutReturn(Body(row)) = Body(read)
  <2>1. CASE init = <<>>
    <3>1. Body(row) = Escape(v)
      BY <1>1, <2>1, BodyAppend
    <3>2. Body(read) = Escape(u)
      <4> HIDE DEF u
      <4> QED BY <1>2, <2>1, BodyAppend
    <3> QED BY <3>1, <3>2, WithoutReturnEscape
  <2>2. CASE init # <<>>
    <3> DEFINE a == Body(init) \o <<Bar>>
    <3>1. Body(init) \in Seq(C) /\ <<Bar>> \in Seq(C) /\ Bar \in C
      BY BodyAppend, BarTyped
    <3>2. a = Append(Body(init), Bar)
      BY <3>1, AppendIsConcat
    <3>3. a \in Seq(C) /\ Last(a) = Bar /\ Bar # Return
      <4> DEFINE z == Body(init)
      <4>1. z \in Seq(C)
        BY <3>1
      <4> HIDE DEF z
      <4>2. Append(z, Bar) \in Seq(C) /\ Last(Append(z, Bar)) = Bar
        BY <3>1, <4>1, LastAppend
      <4>3. Bar # Return
        BY DEF Bar, Return
      <4> HIDE DEF a
      <4> QED BY <3>2, <4>2, <4>3 DEF z
    <3>4. \A w \in A : Body(Append(init, w)) = a \o Escape(w)
      <4> TAKE w \in A
      <4>1. Body(Append(init, w)) = Body(init) \o (<<Bar>> \o Escape(w)) /\ Escape(w) \in Seq(C)
        BY <2>2, BodyAppend, EscapeAppend
      <4> DEFINE x == <<Bar>>
                 y == Escape(w)
                 z == Body(init)
      <4>2. x \in Seq(C) /\ y \in Seq(C) /\ z \in Seq(C)
        BY <3>1, <4>1
      <4> HIDE DEF x, y, z
      <4>3. (z \o x) \o y = z \o (x \o y)
        <5>1. Regroups(z, x, y)
          BY <4>2, Regroup
        <5> QED BY <5>1 DEF Regroups
      <4> QED BY <4>1, <4>3 DEF x, y, z
    <3> HIDE DEF a
    <3>5. WithoutReturn(a \o Escape(v)) = a \o WithoutReturn(Escape(v))
      <4> DEFINE y == Escape(v)
      <4>1. y \in Seq(C)
        BY EscapeAppend
      <4> HIDE DEF y
      <4>2. WithoutReturn(a \o y) = a \o WithoutReturn(y)
        BY <3>3, <4>1, WithoutReturnConcat
      <4> QED BY <4>2 DEF y
    <3>6. WithoutReturn(Escape(v)) = Escape(u)
      BY WithoutReturnEscape
    <3>7. Body(row) = a \o Escape(v) /\ Body(read) = a \o Escape(u)
      BY <1>1, <1>2, <3>4
    <3> QED BY <3>5, <3>6, <3>7
  <2> QED BY <2>1, <2>2
<1>5. read = WithoutLastReturn(row)
  <2> DEFINE n == Len(init)
  <2>1. /\ Len(row) = n + 1 /\ n \in Nat /\ DOMAIN row = 1..(n + 1)
        /\ \A i \in 1..n : row[i] = init[i]
        /\ row[n + 1] = v
    <3> HIDE DEF A
    <3> QED BY <1>1, AppendAt
  <2>2. /\ DOMAIN read = 1..(n + 1) /\ \A i \in 1..n : read[i] = init[i]
        /\ read[n + 1] = u
    <3> HIDE DEF A, u
    <3> QED BY <1>1, <1>2, AppendAt
  <2>3. read = [i \in 1..(n + 1) |-> read[i]]
    <3> HIDE DEF A, u, read
    <3>1. DOMAIN read = 1..Len(read)
      BY <1>3, LenProperties
    <3>2. read = [i \in 1..Len(read) |-> read[i]]
      BY <1>3, LenProperties
    <3> QED BY <1>3, <2>1, <3>2
  <2>4. WithoutLastReturn(row) = [i \in 1..(n + 1) |-> IF i = n + 1 THEN u ELSE row[i]]
    BY <2>1 DEF WithoutLastReturn
  <2> HIDE DEF u, read, n
  <2>5. \A i \in 1..(n + 1) : read[i] = IF i = n + 1 THEN u ELSE row[i]
    <3> TAKE i \in 1..(n + 1)
    <3>1. i # n + 1 => i \in 1..n
      BY <2>1
    <3> QED BY <2>1, <2>2, <3>1
  <2> QED BY <2>3, <2>4, <2>5
<1>6. ParseLine(Body(read), Len(read)) = read
  <2> HIDE DEF read
  <2> QED BY <1>3, ParseBody DEF A
<1> QED BY <1>3, <1>4, <1>5, <1>6

\* What LineEnd chooses.
EndsLine(f, offset, i) ==
    /\ i \in offset..(Len(f) + 1)
    /\ i <= Len(f) => f[i] = Newline
    /\ \A j \in offset..(i - 1) : f[j] # Newline

LEMMA LineEndIs ==
  ASSUME NEW C, NEW f \in Seq(C), NEW offset \in Nat, offset <= Len(f) + 1
  PROVE  /\ EndsLine(f, offset, LineEnd(f, offset))
         /\ \A i : EndsLine(f, offset, i) => LineEnd(f, offset) = i
<1>1. Len(f) \in Nat
  BY LenProperties
<1>2. \E i : EndsLine(f, offset, i)
  <2> DEFINE T == {i \in offset..(Len(f) + 1) : i <= Len(f) => f[i] = Newline}
  <2>1. T \subseteq Nat /\ Len(f) + 1 \in T
    BY <1>1
  <2>2. PICK m \in T : \A k \in T : m <= k
    <3> HIDE DEF T
    <3> QED BY <2>1, LeastExists
  <2>3. \A j \in offset..(m - 1) : f[j] # Newline
    <3> SUFFICES ASSUME NEW j \in offset..(m - 1), f[j] = Newline PROVE FALSE
      OBVIOUS
    <3>1. j \in T /\ j < m /\ m \in Nat
      BY <1>1, <2>1
    <3> QED BY <2>2, <3>1
  <2> QED BY <2>2, <2>3 DEF EndsLine
<1>3. \A i, k : EndsLine(f, offset, i) /\ EndsLine(f, offset, k) => i = k
  <2> SUFFICES ASSUME NEW i, NEW k, EndsLine(f, offset, i), EndsLine(f, offset, k), i < k PROVE FALSE
    BY <1>1 DEF EndsLine
  <2>1. i \in offset..(k - 1) /\ i <= Len(f)
    BY <1>1 DEF EndsLine
  <2> QED BY <2>1 DEF EndsLine
<1> DEFINE end == CHOOSE i \in offset..(Len(f) + 1) :
                     /\ i <= Len(f) => f[i] = Newline
                     /\ \A j \in offset..(i - 1) : f[j] # Newline
<1>4. EndsLine(f, offset, end)
  BY <1>2 DEF EndsLine
<1>5. LineEnd(f, offset) = end
  BY DEF LineEnd
<1> HIDE DEF end
<1> QED BY <1>3, <1>4, <1>5

\* A file holds these characters from a place on.
Holds(f, offset, line) ==
    /\ offset + Len(line) - 1 <= Len(f)
    /\ \A i \in 1..Len(line) : f[offset + i - 1] = line[i]

LEMMA ReadHeld ==
  ASSUME NEW C, IsCharset(C), NEW f \in Seq(C), NEW offset \in Nat \ {0}, NEW body \in Seq(InLine(C)),
         Holds(f, offset, body \o <<Newline>>)
  PROVE  /\ offset <= Len(f) /\ LineEnd(f, offset) = offset + Len(body)
         /\ ReadLine(f, offset) = WithoutReturn(body)
<1> DEFINE n == Len(body)
           line == body \o <<Newline>>
<1>1. /\ n \in Nat /\ Len(f) \in Nat /\ body \in Seq(C)
      /\ \A i \in 1..n : body[i] \in InLine(C)
      /\ \A i \in 1..Len(f) : f[i] \in C
  BY LenProperties, ElementOfSeq, BarTyped
<1>2. Len(line) = n + 1 /\ (\A i \in 1..n : line[i] = body[i]) /\ line[n + 1] = Newline
  <2>1. <<Newline>> \in Seq(C)
    BY DEF IsCharset
  <2>2. /\ Len(line) = n + 1
        /\ \A i \in 1..(n + 1) : line[i] = IF i <= n THEN body[i] ELSE <<Newline>>[i - n]
    BY <1>1, <2>1, ConcatProperties
  <2> HIDE DEF line
  <2>3. \A i \in 1..n : line[i] = body[i]
    BY <1>1, <2>2
  <2>4. line[n + 1] = Newline
    BY <1>1, <2>2
  <2> QED BY <2>2, <2>3, <2>4
<1>3. /\ offset + n <= Len(f) /\ offset + n \in Nat
      /\ f[offset + n] = Newline
      /\ \A i \in 1..n : f[offset + i - 1] = body[i]
  <2> HIDE DEF line
  <2>1. /\ offset + (n + 1) - 1 <= Len(f)
        /\ \A i \in 1..(n + 1) : f[offset + i - 1] = line[i]
    BY <1>2 DEF Holds, line
  <2>2. offset + (n + 1) - 1 = offset + n /\ n + 1 \in 1..(n + 1)
    BY <1>1
  <2>3. line[n + 1] = Newline
    BY <1>2
  <2>4. f[offset + n] = Newline
    BY <2>1, <2>2, <2>3
  <2>5. \A i \in 1..n : f[offset + i - 1] = body[i]
    <3> TAKE i \in 1..n
    <3>1. i \in 1..(n + 1)
      BY <1>1
    <3> QED BY <1>2, <2>1, <3>1
  <2> QED BY <1>1, <2>1, <2>2, <2>4, <2>5
<1>4. \A j \in offset..(offset + n - 1) : f[j] # Newline
  <2> TAKE j \in offset..(offset + n - 1)
  <2>1. j - offset + 1 \in 1..n /\ offset + (j - offset + 1) - 1 = j
    BY <1>1
  <2>2. f[j] = body[j - offset + 1]
    BY <1>3, <2>1
  <2> QED BY <1>1, <2>1, <2>2 DEF InLine
<1>5. LineEnd(f, offset) = offset + n
  <2>1. EndsLine(f, offset, offset + n)
    BY <1>1, <1>3, <1>4 DEF EndsLine
  <2>2. offset <= Len(f) + 1
    BY <1>1, <1>3
  <2> QED BY <2>1, <2>2, LineEndIs
<1>6. SubSeq(f, offset, offset + n - 1) = body
  <2> DEFINE r == SubSeq(f, offset, offset + n - 1)
  <2>1. \A j \in offset..(offset + n - 1) : f[j] \in C
    BY <1>1, <1>3
  <2>2. /\ r \in Seq(C)
        /\ Len(r) = IF offset <= offset + n - 1 THEN (offset + n - 1) - offset + 1 ELSE 0
        /\ \A i \in 1..((offset + n - 1) - offset + 1) : r[i] = f[offset + i - 1]
    BY <1>1, <2>1, SubSeqProperties
  <2>3. (offset + n - 1) - offset + 1 = n /\ Len(r) = n
    BY <1>1, <2>2
  <2> HIDE DEF r
  <2>4. \A i \in 1..Len(r) : r[i] = body[i]
    BY <1>1, <1>3, <2>2, <2>3
  <2>5. r = body
    BY <1>1, <2>2, <2>3, <2>4, SeqEqual
  <2> QED BY <2>5 DEF r
<1>7. LineEnd(f, offset) - 1 = offset + n - 1 /\ offset <= Len(f)
  BY <1>1, <1>3, <1>5
<1>8. ReadLine(f, offset) = WithoutReturn(body)
  BY <1>6, <1>7 DEF ReadLine
<1> QED BY <1>5, <1>7, <1>8

\* The line of a row is its body and a newline, and it can be read wherever it stands.
LEMMA LineShape ==
  ASSUME NEW C, IsCharset(C), NEW row \in Seq(Seq(C))
  PROVE  /\ Line(row) = Body(row) \o <<Newline>> /\ Body(row) \in Seq(InLine(C))
         /\ Line(row) \in Seq(C) /\ Len(Line(row)) = Len(Body(row)) + 1
         /\ \A i \in DOMAIN Line(row) : Line(row)[i] = Newline <=> i = Len(Line(row))
<1> DEFINE body == Body(row)
           end == <<Newline>>
           line == body \o end
<1>1. body \in Seq(InLine(C)) /\ body \in Seq(C) /\ end \in Seq(C) /\ Len(body) \in Nat
  BY BodyAppend, BarTyped, LenProperties DEF IsCharset
<1>2. Line(row) = line
  BY DEF Line, Body
<1>3. Len(end) = 1 /\ end[1] = Newline
  OBVIOUS
<1> HIDE DEF body, end, line
<1>4. /\ line \in Seq(C) /\ Len(line) = Len(body) + 1
      /\ \A i \in 1..(Len(body) + 1) : line[i] = IF i <= Len(body) THEN body[i] ELSE end[i - Len(body)]
  <2>1. /\ body \o end \in Seq(C) /\ Len(body \o end) = Len(body) + Len(end)
        /\ \A i \in 1..(Len(body) + Len(end)) :
              (body \o end)[i] = IF i <= Len(body) THEN body[i] ELSE end[i - Len(body)]
    BY <1>1, ConcatProperties
  <2> QED BY <1>3, <2>1 DEF line
<1>5. \A i \in DOMAIN line : line[i] = Newline <=> i = Len(line)
  <2>1. DOMAIN line = 1..(Len(body) + 1)
    BY <1>4, LenProperties
  <2> SUFFICES ASSUME NEW i \in 1..(Len(body) + 1) PROVE line[i] = Newline <=> i = Len(body) + 1
    BY <1>4, <2>1
  <2>2. CASE i = Len(body) + 1
    <3>1. i - Len(body) = 1 /\ ~(i <= Len(body))
      BY <1>1, <2>2
    <3> QED BY <1>3, <1>4, <2>2, <3>1
  <2>3. CASE i # Len(body) + 1
    <3>1. i \in 1..Len(body)
      BY <1>1, <2>3
    <3>2. body[i] \in InLine(C)
      BY <1>1, <3>1, ElementOfSeq
    <3> QED BY <1>4, <2>3, <3>1, <3>2 DEF InLine
  <2> QED BY <2>2, <2>3
<1> QED BY <1>1, <1>2, <1>4, <1>5 DEF line, body, end

LEMMA RowHeld ==
  ASSUME NEW C, IsCharset(C), NEW row \in Seq(Seq(C)), row # <<>>,
         NEW f \in Seq(C), NEW offset \in Nat \ {0}, Holds(f, offset, Line(row))
  PROVE  RowAtOffset(f, offset, Len(row)) = WithoutLastReturn(row)
<1>1. Line(row) = Body(row) \o <<Newline>> /\ Body(row) \in Seq(InLine(C))
  BY LineShape
<1> DEFINE body == Body(row)
<1>2. body \in Seq(InLine(C)) /\ Holds(f, offset, body \o <<Newline>>)
  BY <1>1
<1> HIDE DEF body
<1>3. offset <= Len(f) /\ ReadLine(f, offset) = WithoutReturn(body)
  BY <1>2, ReadHeld
<1>4. ~(offset > Len(f))
  BY <1>3, LenProperties
<1>5. RowAtOffset(f, offset, Len(row)) = ParseLine(WithoutReturn(body), Len(row))
  BY <1>3, <1>4 DEF RowAtOffset
<1> QED BY <1>5, ParseReadBody DEF body

-----------------------------------------------------------------------------
(* Bad escapes.                                                            *)

\* n backslashes stand before place i, and no more.
Backslashes(line, i, n) ==
    /\ n \in 0..(i - 1)
    /\ \A j \in (i - n)..(i - 1) : line[j] = Backslash
    /\ n = i - 1 \/ line[i - n - 1] # Backslash

LEMMA BackslashesBefore ==
  ASSUME NEW line, NEW i \in Nat \ {0}
  PROVE  /\ \E n : Backslashes(line, i, n)
         /\ \A n, m : Backslashes(line, i, n) /\ Backslashes(line, i, m) => n = m
         /\ \A n : Backslashes(line, i, n) => (Escapes(line, i) <=> line[i] = Backslash /\ n % 2 = 0)
<1>1. \E n : Backslashes(line, i, n)
  <2> DEFINE T == {k \in 1..(i - 1) : line[k] # Backslash}
  <2>1. CASE T = {}
    <3>1. \A j \in (i - (i - 1))..(i - 1) : line[j] = Backslash
      BY <2>1
    <3>2. i - 1 \in 0..(i - 1)
      OBVIOUS
    <3> QED BY <3>1, <3>2 DEF Backslashes
  <2>2. CASE T # {}
    <3>1. T \subseteq 0..(i - 1) /\ i - 1 \in Nat
      OBVIOUS
    <3>2. PICK m \in T : \A k \in T : k <= m
      <4> HIDE DEF T
      <4> DEFINE N == i - 1
      <4>1. N \in Nat /\ T \in SUBSET (0..N)
        BY <3>1
      <4> HIDE DEF N
      <4> QED BY <2>2, <4>1, LargestExists
    <3>3. m \in 1..(i - 1) /\ line[m] # Backslash
      OBVIOUS
    <3>4. \A j \in (m + 1)..(i - 1) : line[j] = Backslash
      <4> SUFFICES ASSUME NEW j \in (m + 1)..(i - 1), line[j] # Backslash PROVE FALSE
        OBVIOUS
      <4>1. j \in T /\ j > m
        BY <3>3
      <4> QED BY <3>2, <3>3, <4>1
    <3> HIDE DEF T
    <3>5. /\ i - 1 - m \in 0..(i - 1) /\ i - (i - 1 - m) = m + 1
          /\ i - (i - 1 - m) - 1 = m
      BY <3>3
    <3>6. Backslashes(line, i, i - 1 - m)
      BY <3>3, <3>4, <3>5 DEF Backslashes
    <3> QED BY <3>6
  <2> QED BY <2>1, <2>2
<1>2. ASSUME NEW n, NEW m, Backslashes(line, i, n), Backslashes(line, i, m) PROVE n = m
  <2>1. ASSUME NEW a, NEW b, Backslashes(line, i, a), Backslashes(line, i, b), a < b PROVE FALSE
    <3>1. a \in 0..(i - 1) /\ b \in 0..(i - 1) /\ a # i - 1 /\ i - a - 1 \in (i - b)..(i - 1)
      BY <2>1 DEF Backslashes
    <3> QED BY <2>1, <3>1 DEF Backslashes
  <2>2. n \in Int /\ m \in Int
    BY <1>2 DEF Backslashes
  <2> QED BY <1>2, <2>1, <2>2
<1>3. Escapes(line, i) <=> line[i] = Backslash /\ \E n : Backslashes(line, i, n) /\ n % 2 = 0
  BY DEF Escapes, Backslashes
<1> QED BY <1>1, <1>2, <1>3

\* The line ends in a backslash that escapes what comes next.
Pending(line) == Len(line) # 0 /\ Escapes(line, Len(line))

\* A bad escape before the end.
BadBefore(line) ==
    \E i \in 1..(Len(line) - 1) : Escapes(line, i) /\ line[i + 1] \notin {Backslash, Bar, "n"}

LEMMA BadEscapes ==
  ASSUME NEW C, NEW t \in Seq(C)
  PROVE  /\ HasBadEscape(t) <=> BadBefore(t) \/ Pending(t)
         /\ ~BadBefore(<<>>) /\ ~Pending(<<>>)
         /\ \A c \in C : /\ Pending(Append(t, c)) <=> c = Backslash /\ ~Pending(t)
                         /\ BadBefore(Append(t, c)) <=>
                               BadBefore(t) \/ (Pending(t) /\ ~IsEscape(c))
<1> DEFINE N == Len(t)
<1>1. N \in Nat /\ DOMAIN t = 1..N
  BY LenProperties
<1>2. HasBadEscape(t) <=> BadBefore(t) \/ Pending(t)
  <2>1. N # 0 => 1..N = (1..(N - 1)) \cup {N}
    BY <1>1
  <2>2. N = 0 => 1..N = {} /\ 1..(N - 1) = {}
    BY <1>1
  <2>3. ASSUME NEW i \in 1..(N - 1) PROVE i # N
    <3>1. N \in Nat
      BY <1>1
    <3> HIDE DEF N
    <3> QED BY <3>1
  <2> QED BY <1>1, <2>1, <2>2, <2>3 DEF HasBadEscape, BadBefore, Pending
<1>3. ~BadBefore(<<>>) /\ ~Pending(<<>>)
  BY DEF BadBefore, Pending
<1>4. ASSUME NEW c \in C
      PROVE  /\ Pending(Append(t, c)) <=> c = Backslash /\ ~Pending(t)
             /\ BadBefore(Append(t, c)) <=> BadBefore(t) \/ (Pending(t) /\ ~IsEscape(c))
  <2> DEFINE u == Append(t, c)
  <2>1. Len(u) = N + 1 /\ u[N + 1] = c /\ \A i \in 1..N : u[i] = t[i]
    BY AppendProperties
  <2> HIDE DEF u
  <2>2. ASSUME NEW i \in 1..N PROVE Escapes(u, i) <=> Escapes(t, i)
    <3>1. \A n \in 0..(i - 1) : \A j \in (i - n)..(i - 1) : j \in 1..N
      BY <1>1
    <3>2. \A n \in 0..(i - 1) : n # i - 1 => i - n - 1 \in 1..N
      BY <1>1
    <3>3. \A n : Backslashes(u, i, n) <=> Backslashes(t, i, n)
      BY <2>1, <3>1, <3>2 DEF Backslashes
    <3>4. \A l : Escapes(l, i) <=> l[i] = Backslash /\ \E n : Backslashes(l, i, n) /\ n % 2 = 0
      BY DEF Escapes, Backslashes
    <3> QED BY <2>1, <3>3, <3>4
  <2>3. Pending(u) <=> c = Backslash /\ ~Pending(t)
    <3>1. Pending(u) <=> Escapes(u, N + 1)
      BY <1>1, <2>1 DEF Pending
    <3>2. CASE N = 0 \/ t[N] # Backslash
      <4>1. Backslashes(u, N + 1, 0)
        BY <1>1, <2>1, <3>2 DEF Backslashes
      <4>2. Escapes(u, N + 1) <=> c = Backslash
        <5>1. N + 1 \in Nat \ {0} /\ 0 % 2 = 0
          BY <1>1
        <5> QED BY <2>1, <4>1, <5>1, BackslashesBefore
      <4>3. ~Pending(t)
        BY <3>2 DEF Pending, Escapes
      <4> QED BY <3>1, <4>2, <4>3
    <3>3. CASE N # 0 /\ t[N] = Backslash
      <4>1. N \in Nat \ {0} /\ N + 1 \in Nat \ {0}
        BY <1>1, <3>3
      <4>2. PICK n : Backslashes(t, N, n)
        BY <4>1, BackslashesBefore
      <4>3. n \in 0..(N - 1)
        BY <4>2 DEF Backslashes
      <4>4. Backslashes(u, N + 1, n + 1)
        <5>1. n + 1 \in 0..((N + 1) - 1)
          BY <4>1, <4>3
        <5>2. ASSUME NEW j \in ((N + 1) - (n + 1))..((N + 1) - 1) PROVE u[j] = Backslash
          <6>1. j \in 1..N /\ (j # N => j \in (N - n)..(N - 1))
            BY <4>1, <4>3
          <6> QED BY <2>1, <3>3, <4>2, <6>1 DEF Backslashes
        <5>3. n + 1 = (N + 1) - 1 \/ u[(N + 1) - (n + 1) - 1] # Backslash
          <6>1. CASE n = N - 1
            BY <4>1, <6>1
          <6>2. CASE n # N - 1
            <7>1. N - n - 1 \in 1..N /\ (N + 1) - (n + 1) - 1 = N - n - 1
              BY <4>1, <4>3, <6>2
            <7> QED BY <2>1, <4>2, <6>2, <7>1 DEF Backslashes
          <6> QED BY <6>1, <6>2
        <5> QED BY <5>1, <5>2, <5>3 DEF Backslashes
      <4>5. Escapes(t, N) <=> n % 2 = 0
        BY <3>3, <4>1, <4>2, BackslashesBefore
      <4>6. Escapes(u, N + 1) <=> c = Backslash /\ (n + 1) % 2 = 0
        BY <2>1, <4>1, <4>4, BackslashesBefore
      <4>7. (n + 1) % 2 = 0 <=> ~(n % 2 = 0)
        BY <4>3
      <4> QED BY <3>1, <3>3, <4>5, <4>6, <4>7 DEF Pending
    <3> QED BY <3>2, <3>3
  <2>4. BadBefore(u) <=> BadBefore(t) \/ (Pending(t) /\ ~IsEscape(c))
    <3> DEFINE bad(l, i) == Escapes(l, i) /\ l[i + 1] \notin {Backslash, Bar, "n"}
    <3>1. ASSUME NEW i \in 1..(N - 1) PROVE bad(u, i) <=> bad(t, i)
      <4>1. i \in 1..N /\ i + 1 \in 1..N
        BY <1>1
      <4> QED BY <2>1, <2>2, <4>1
    <3>2. N # 0 => (bad(u, N) <=> Pending(t) /\ ~IsEscape(c))
      <4>1. N # 0 => N \in 1..N
        BY <1>1
      <4> QED BY <2>1, <2>2, <4>1 DEF Pending, IsEscape
    <3>3. BadBefore(u) <=> \E i \in 1..N : bad(u, i)
      <4>1. (N + 1) - 1 = N
        BY <1>1
      <4> QED BY <2>1, <4>1 DEF BadBefore
    <3>4. BadBefore(t) <=> \E i \in 1..(N - 1) : bad(t, i)
      BY DEF BadBefore
    <3> HIDE DEF bad
    <3>5. CASE N = 0
      <4>1. 1..N = {} /\ 1..(N - 1) = {} /\ ~Pending(t)
        BY <3>5 DEF Pending
      <4> QED BY <3>3, <3>4, <4>1
    <3>6. CASE N # 0
      <4>1. 1..N = (1..(N - 1)) \cup {N}
        BY <1>1, <3>6
      <4> QED BY <3>1, <3>2, <3>3, <3>4, <3>6, <4>1
    <3> QED BY <3>5, <3>6
  <2> QED BY <2>3, <2>4 DEF u
<1> QED BY <1>2, <1>3, <1>4

-----------------------------------------------------------------------------
(* Lines that no row was written as.                                       *)

\* An error behind an escaped value stays one.
LEMMA UnescapeBad ==
  ASSUME NEW C, IsCharset(C)
  PROVE  \A v \in Seq(C) : \A s \in Seq(C) :
            Unescape(s) = MalformedValue => Unescape(Escape(v) \o s) = MalformedValue
<1> DEFINE P == {v \in Seq(C) : \A s \in Seq(C) :
                   Unescape(s) = MalformedValue => Unescape(Escape(v) \o s) = MalformedValue}
<1>1. <<>> \in P
  <2>1. Escape(<<>>) = <<>> /\ <<>> \in Seq(C)
    BY EscapeAppend
  <2>2. \A s \in Seq(C) : <<>> \o s = s
    BY ConcatEmptySeq
  <2> QED BY <2>1, <2>2
<1>2. ASSUME NEW v \in Seq(C), NEW c \in C, v \in P PROVE Append(v, c) \in P
  <2>1. Append(v, c) \in Seq(C) /\ Escape(v) \in Seq(C) /\ Escaped(c) \in Seq(C)
    BY AppendProperties, EscapeAppend, EscapedChars
  <2> SUFFICES ASSUME NEW s \in Seq(C), Unescape(s) = MalformedValue
               PROVE  Unescape(Escape(Append(v, c)) \o s) = MalformedValue
    BY <2>1
  <2>2. Escape(Append(v, c)) \o s = Escape(v) \o (Escaped(c) \o s)
    <3>1. Escape(Append(v, c)) = Escape(v) \o Escaped(c)
      BY EscapeAppend
    <3> QED BY <2>1, <3>1, ConcatAssociative
  <2>3. Escaped(c) \o s \in Seq(C)
    BY <2>1, ConcatProperties
  <2>4. Unescape(Escaped(c) \o s) = MalformedValue
    <3>1. CASE c \notin {Backslash, Bar, Newline}
      <4>1. Escaped(c) = <<c>> /\ c # Backslash
        BY <3>1, EscapedChars
      <4> QED BY <4>1, UnescapeFront
    <3>2. ASSUME NEW d \in C, Escaped(c) = <<Backslash, d>>
          PROVE  Unescape(Escaped(c) \o s) = MalformedValue
      <4>1. Unescape(<<Backslash, d>> \o s) = MalformedValue
        BY UnescapeFront
      <4> QED BY <3>2, <4>1
    <3>3. CASE c \in {Backslash, Bar}
      <4>1. Escaped(c) = <<Backslash, c>>
        BY <3>3, EscapedChars DEF Backslash, Bar, Newline
      <4> QED BY <3>2, <4>1
    <3>4. CASE c = Newline
      <4>1. Escaped(c) = <<Backslash, "n">> /\ "n" \in C
        BY <3>4, EscapedChars DEF Backslash, Bar, Newline, IsCharset
      <4> QED BY <3>2, <4>1
    <3> QED BY <3>1, <3>3, <3>4
  <2> QED BY <1>2, <2>2, <2>3, <2>4
<1> HIDE DEF P
<1>3. \A v \in Seq(C) : v \in P
  BY <1>1, <1>2, SeqInduct
<1> QED BY <1>3 DEF P

\* A longer last value, and an empty one more.
LEMMA BodyGrow ==
  ASSUME NEW C, IsCharset(C), NEW row \in Seq(Seq(C)), NEW v \in Seq(C)
  PROVE  /\ Body(Append(row, v)) \in Seq(InLine(C)) /\ Append(row, v) \in Seq(Seq(C))
         /\ \A d \in C : Body(Append(row, Append(v, d))) = Body(Append(row, v)) \o Escaped(d)
         /\ Body(Append(Append(row, v), <<>>)) = Append(Body(Append(row, v)), Bar)
<1> DEFINE A == Seq(C)
           more == Append(row, v)
<1>1. more \in Seq(A) /\ more # <<>>
  <2> HIDE DEF A
  <2>1. row \in Seq(A) /\ v \in A
    BY DEF A
  <2> QED BY <2>1, AppendProperties
<1>2. Body(more) \in Seq(InLine(C)) /\ Body(more) \in Seq(C)
  <2> HIDE DEF more
  <2> QED BY <1>1, BodyAppend, BarTyped DEF A
<1>3. ASSUME NEW d \in C PROVE Body(Append(row, Append(v, d))) = Body(more) \o Escaped(d)
  <2> DEFINE w == Append(v, d)
             e == Escape(v)
             x == Escaped(d)
             bar == <<Bar>>
  <2>1. w \in Seq(C) /\ Escape(w) = e \o x /\ e \in Seq(C) /\ x \in Seq(C) /\ bar \in Seq(C)
    <3>1. w \in Seq(C) /\ bar \in Seq(C)
      BY AppendProperties, BarTyped
    <3>2. Escape(w) = e \o x /\ e \in Seq(C)
      BY EscapeAppend
    <3>3. x \in Seq(C)
      BY EscapedChars
    <3> QED BY <3>1, <3>2, <3>3
  <2>2. Body(more) = IF row = <<>> THEN e ELSE Body(row) \o (bar \o e)
    BY BodyAppend
  <2> HIDE DEF w
  <2>3. Body(Append(row, w)) = IF row = <<>> THEN Escape(w) ELSE Body(row) \o (bar \o Escape(w))
    BY <2>1, BodyAppend
  <2>4. Body(row) \in Seq(C)
    BY BodyAppend, BarTyped
  <2> DEFINE z == Body(row)
             y == bar \o e
  <2>5. z \in Seq(C)
    BY <2>4
  <2> HIDE DEF e, x, bar, z
  <2>6. y \in Seq(C) /\ bar \o (e \o x) = y \o x
    <3>1. y \in Seq(C)
      BY <2>1, ConcatProperties
    <3>2. (bar \o e) \o x = bar \o (e \o x)
      <4>1. Regroups(bar, e, x)
        BY <2>1, Regroup
      <4> QED BY <4>1 DEF Regroups
    <3> QED BY <3>1, <3>2
  <2> HIDE DEF y
  <2>7. z \o (y \o x) = (z \o y) \o x
    <3>1. Regroups(z, y, x)
      BY <2>1, <2>5, <2>6, Regroup
    <3> QED BY <3>1 DEF Regroups
  <2> QED BY <2>1, <2>2, <2>3, <2>6, <2>7 DEF w, x, y, z
<1>4. Body(Append(more, <<>>)) = Append(Body(more), Bar)
  <2> DEFINE none == <<>>
  <2>1. none \in Seq(C) /\ Escape(none) = none
    BY EscapeAppend
  <2> HIDE DEF none, more
  <2>2. Body(Append(more, none)) = Body(more) \o (<<Bar>> \o Escape(none))
    BY <1>1, <2>1, BodyAppend DEF A
  <2>3. <<Bar>> \o none = <<Bar>>
    BY BarTyped, ConcatEmptySeq DEF none
  <2>4. Body(more) \o <<Bar>> = Append(Body(more), Bar)
    BY <1>2, BarTyped, AppendIsConcat
  <2> QED BY <2>1, <2>2, <2>3, <2>4 DEF none
<1> QED BY <1>1, <1>2, <1>3, <1>4 DEF A

\* A line without a bad escape is that of a row, but for a last half of an escape.
WrittenAs(C, t, row, v) ==
    t = IF Pending(t) THEN Append(Body(Append(row, v)), Backslash) ELSE Body(Append(row, v))

LEMMA LineIsWritten ==
  ASSUME NEW C, IsCharset(C)
  PROVE  \A t \in Seq(InLine(C)) : ~BadBefore(t) =>
            \E row \in Seq(Seq(C)), v \in Seq(C) : WrittenAs(C, t, row, v)
<1> DEFINE D == InLine(C)
           P == {t \in Seq(D) : ~BadBefore(t) =>
                   \E row \in Seq(Seq(C)), v \in Seq(C) : WrittenAs(C, t, row, v)}
<1>1. <<>> \in P
  <2>1. <<>> \in Seq(D) /\ <<>> \in Seq(Seq(C)) /\ <<>> \in Seq(C)
    OBVIOUS
  <2>2. Body(Append(<<>>, <<>>)) = <<>>
    BY <2>1, BodyAppend, EscapeAppend
  <2>3. ~Pending(<<>>)
    BY DEF Pending
  <2>4. WrittenAs(C, <<>>, <<>>, <<>>)
    BY <2>2, <2>3 DEF WrittenAs
  <2> QED BY <2>1, <2>4
<1>2. ASSUME NEW t \in Seq(D), NEW c \in D, t \in P PROVE Append(t, c) \in P
  <2> DEFINE u == Append(t, c)
  <2>1. u \in Seq(D) /\ t \in Seq(C) /\ c \in C /\ c # Newline
    BY AppendProperties, BarTyped DEF InLine
  <2> SUFFICES ASSUME ~BadBefore(u)
               PROVE  \E row \in Seq(Seq(C)), v \in Seq(C) : WrittenAs(C, u, row, v)
    BY <2>1
  <2>2. /\ Pending(u) <=> c = Backslash /\ ~Pending(t)
        /\ ~BadBefore(t) /\ (Pending(t) => IsEscape(c))
    BY <2>1, BadEscapes
  <2>3. PICK row \in Seq(Seq(C)), v \in Seq(C) : WrittenAs(C, t, row, v)
    BY <1>2, <2>2
  <2> DEFINE body == Body(Append(row, v))
             more == Append(row, v)
  <2>4. body \in Seq(C) /\ more \in Seq(Seq(C)) /\ Append(more, <<>>) \in Seq(Seq(C))
    <3>1. body \in Seq(C) /\ more \in Seq(Seq(C))
      BY BodyGrow, BarTyped
    <3> DEFINE A == Seq(C)
               none == <<>>
    <3>2. none \in A /\ more \in Seq(A)
      BY <3>1
    <3> HIDE DEF A, none, more
    <3>3. Append(more, none) \in Seq(A)
      BY <3>2, AppendProperties
    <3> QED BY <3>1, <3>3 DEF A, none
  <2>5. ASSUME NEW d \in C, u = body \o Escaped(d), ~Pending(u)
        PROVE  \E r \in Seq(Seq(C)), w \in Seq(C) : WrittenAs(C, u, r, w)
    <3>1. Append(v, d) \in Seq(C) /\ u = Body(Append(row, Append(v, d)))
      BY <2>5, BodyGrow, AppendProperties
    <3> QED BY <2>5, <3>1 DEF WrittenAs
  <2>6. CASE Pending(t)
    <3>1. t = Append(body, Backslash) /\ ~Pending(u)
      BY <2>2, <2>3, <2>6 DEF WrittenAs
    <3>2. u = body \o <<Backslash, c>>
      <4>1. Backslash \in C
        BY DEF IsCharset
      <4> DEFINE x == <<Backslash>>
                 y == <<c>>
                 b == body
      <4>2. x \in Seq(C) /\ y \in Seq(C) /\ b \in Seq(C)
        BY <2>1, <2>4, <4>1
      <4>3. x \o y = <<Backslash, c>>
        BY PairIsConcat
      <4>4. t = b \o x
        BY <2>4, <3>1, <4>1, AppendIsConcat
      <4>5. u = t \o y
        BY <2>1, AppendIsConcat
      <4> HIDE DEF x, y, b, u
      <4>6. (b \o x) \o y = b \o (x \o y)
        <5>1. Regroups(b, x, y)
          BY <4>2, Regroup
        <5> QED BY <5>1 DEF Regroups
      <4> QED BY <4>3, <4>4, <4>5, <4>6 DEF b
    <3>3. CASE c \in {Backslash, Bar}
      <4>1. Escaped(c) = <<Backslash, c>>
        BY <2>1, <3>3, EscapedChars DEF Backslash, Bar, Newline
      <4> QED BY <2>1, <2>5, <3>1, <3>2, <4>1
    <3>4. CASE c = "n"
      <4>1. Newline \in C /\ Escaped(Newline) = <<Backslash, c>>
        BY <3>4, EscapedChars DEF Backslash, Bar, Newline, IsCharset
      <4> QED BY <2>5, <3>1, <3>2, <4>1
    <3> QED BY <2>2, <2>6, <3>3, <3>4 DEF IsEscape
  <2>7. CASE ~Pending(t)
    <3>1. t = body
      BY <2>3, <2>7 DEF WrittenAs
    <3>2. CASE c = Backslash
      <4>1. Pending(u) /\ u = Append(body, Backslash)
        BY <2>2, <2>7, <3>1, <3>2
      <4> QED BY <4>1 DEF WrittenAs
    <3>3. CASE c = Bar
      <4>1. c # Backslash
        BY <3>3 DEF Bar, Backslash
      <4>2. u = Body(Append(more, <<>>)) /\ ~Pending(u)
        BY <2>2, <3>1, <3>3, <4>1, BodyGrow
      <4>3. <<>> \in Seq(C)
        OBVIOUS
      <4> QED BY <2>4, <4>2, <4>3 DEF WrittenAs
    <3>4. CASE c \notin {Backslash, Bar}
      <4>1. Escaped(c) = <<c>> /\ ~Pending(u)
        BY <2>1, <2>2, <3>4, EscapedChars
      <4>2. u = body \o <<c>>
        BY <2>1, <2>4, <3>1, AppendIsConcat
      <4> QED BY <2>1, <2>5, <4>1, <4>2
    <3> QED BY <3>2, <3>3, <3>4
  <2> QED BY <2>6, <2>7
<1> HIDE DEF P, D
<1>3. \A t \in Seq(D) : t \in P
  BY <1>1, <1>2, SeqInduct
<1> QED BY <1>3 DEF P, D

\* Once a bad escape is behind, the row cannot be read.
Spoiled(C, st) ==
    \/ MalformedValue \in ToSet(st.fields)
    \/ \A s \in Seq(C) : Unescape(st.raw \o s) = MalformedValue

LEMMA SpoiledStays ==
  ASSUME NEW C, IsCharset(C), NEW fields \in Seq(Fields(C)), NEW raw \in Seq(C)
  PROVE  /\ Spoiled(C, Free(fields, raw)) <=> Spoiled(C, Held(fields, raw))
         /\ Spoiled(C, Free(fields, raw)) =>
               /\ MalformedValue \in ToSet(Append(fields, Unescape(raw)))
               /\ Spoiled(C, Free(Append(fields, Unescape(raw)), <<>>))
               /\ \A c \in C : Spoiled(C, Free(fields, Append(raw, c)))
<1>1. /\ Free(fields, raw).fields = fields /\ Free(fields, raw).raw = raw
      /\ Held(fields, raw).fields = fields /\ Held(fields, raw).raw = raw
  BY DEF Free, Held
<1>2. ASSUME Spoiled(C, Free(fields, raw))
      PROVE  MalformedValue \in ToSet(Append(fields, Unescape(raw)))
  <2> DEFINE x == Unescape(raw)
             more == Append(fields, x)
  <2>1. /\ Len(more) = Len(fields) + 1 /\ Len(fields) \in Nat /\ DOMAIN fields = 1..Len(fields)
        /\ \A i \in 1..Len(fields) : more[i] = fields[i]
        /\ more[Len(fields) + 1] = x /\ DOMAIN more = 1..(Len(fields) + 1)
    BY AppendAt
  <2> HIDE DEF more
  <2>2. CASE MalformedValue \in ToSet(fields)
    <3>1. PICK i \in 1..Len(fields) : fields[i] = MalformedValue
      BY <2>1, <2>2 DEF ToSet
    <3>2. i \in DOMAIN more /\ more[i] = MalformedValue
      BY <2>1, <3>1
    <3> QED BY <3>2 DEF ToSet, more
  <2>3. CASE MalformedValue \notin ToSet(fields)
    <3>1. \A s \in Seq(C) : Unescape(raw \o s) = MalformedValue
      BY <1>1, <1>2, <2>3 DEF Spoiled
    <3>2. raw \o <<>> = raw /\ <<>> \in Seq(C)
      BY ConcatEmptySeq
    <3>3. x = MalformedValue
      BY <3>1, <3>2
    <3>4. Len(fields) + 1 \in DOMAIN more
      BY <2>1
    <3> QED BY <2>1, <3>3, <3>4 DEF ToSet, more
  <2> QED BY <2>2, <2>3
<1>3. ASSUME Spoiled(C, Free(fields, raw)), NEW c \in C
      PROVE  Spoiled(C, Free(fields, Append(raw, c)))
  <2>1. Free(fields, Append(raw, c)).fields = fields /\ Free(fields, Append(raw, c)).raw = Append(raw, c)
    BY DEF Free
  <2>2. CASE MalformedValue \in ToSet(fields)
    BY <2>1, <2>2 DEF Spoiled
  <2>3. CASE MalformedValue \notin ToSet(fields)
    <3>1. \A s \in Seq(C) : Unescape(raw \o s) = MalformedValue
      BY <1>1, <1>3, <2>3 DEF Spoiled
    <3>2. ASSUME NEW s \in Seq(C) PROVE Unescape(Append(raw, c) \o s) = MalformedValue
      <4> DEFINE y == <<c>>
      <4>1. y \in Seq(C) /\ Append(raw, c) = raw \o y
        BY AppendIsConcat
      <4> HIDE DEF y
      <4>2. (raw \o y) \o s = raw \o (y \o s) /\ y \o s \in Seq(C)
        BY <4>1, ConcatAssociative, ConcatProperties
      <4> QED BY <3>1, <4>1, <4>2
    <3> QED BY <2>1, <3>2 DEF Spoiled
  <2> QED BY <2>2, <2>3
<1>4. ASSUME Spoiled(C, Free(fields, raw))
      PROVE  Spoiled(C, Free(Append(fields, Unescape(raw)), <<>>))
  <2>1. Free(Append(fields, Unescape(raw)), <<>>).fields = Append(fields, Unescape(raw))
    BY DEF Free
  <2> QED BY <1>2, <1>4, <2>1 DEF Spoiled
<1>5. Spoiled(C, Free(fields, raw)) <=> Spoiled(C, Held(fields, raw))
  BY <1>1 DEF Spoiled
<1> QED BY <1>2, <1>3, <1>4, <1>5

\* The state in front of the next character of a line.
RunIs(C, t, fields, raw) ==
    /\ SplitRun(SplitStart, t) = IF Pending(t) THEN Held(fields, raw) ELSE Free(fields, raw)
    /\ BadBefore(t) => Spoiled(C, Free(fields, raw))

LEMMA BadSpoils ==
  ASSUME NEW C, IsCharset(C)
  PROVE  \A t \in Seq(InLine(C)) :
            \E fields \in Seq(Fields(C)), raw \in Seq(C) : RunIs(C, t, fields, raw)
<1> DEFINE D == InLine(C)
           P == {t \in Seq(D) : \E fields \in Seq(Fields(C)), raw \in Seq(C) : RunIs(C, t, fields, raw)}
<1>0. SplitStart = Free(<<>>, <<>>) /\ SplitStart \in States(C)
  <2>1. SplitStart = Free(<<>>, <<>>)
    BY DEF SplitStart, Free
  <2>2. <<>> \in Seq(Fields(C)) /\ <<>> \in Seq(C)
    OBVIOUS
  <2> QED BY <2>1, <2>2, StateTyped
<1>1. <<>> \in P
  <2>1. <<>> \in Seq(D) /\ <<>> \in Seq(Fields(C)) /\ <<>> \in Seq(C)
    OBVIOUS
  <2>2. ~Pending(<<>>) /\ ~BadBefore(<<>>)
    BY DEF Pending, BadBefore
  <2>3. SplitRun(SplitStart, <<>>) = SplitStart
    BY <1>0, <2>1, SplitRunAppend
  <2>4. RunIs(C, <<>>, <<>>, <<>>)
    BY <1>0, <2>2, <2>3 DEF RunIs
  <2> QED BY <2>1, <2>4
<1>2. ASSUME NEW t \in Seq(D), NEW c \in D, t \in P PROVE Append(t, c) \in P
  <2> DEFINE u == Append(t, c)
  <2>1. u \in Seq(D) /\ t \in Seq(C) /\ c \in C /\ c # Newline
    BY AppendProperties, BarTyped DEF InLine
  <2>2. /\ Pending(u) <=> c = Backslash /\ ~Pending(t)
        /\ BadBefore(u) <=> BadBefore(t) \/ (Pending(t) /\ ~IsEscape(c))
    BY <2>1, BadEscapes
  <2>3. PICK fields \in Seq(Fields(C)), raw \in Seq(C) : RunIs(C, t, fields, raw)
    BY <1>2
  <2> DEFINE st == IF Pending(t) THEN Held(fields, raw) ELSE Free(fields, raw)
             x == <<c>>
             next == Append(raw, c)
             ended == Append(fields, Unescape(raw))
  <2>4. SplitRun(SplitStart, u) = SplitRun(st, x)
    <3>1. u = t \o x /\ x \in Seq(C)
      BY <2>1, AppendIsConcat
    <3> HIDE DEF x, st
    <3>2. SplitRun(SplitStart, t \o x) = SplitRun(SplitRun(SplitStart, t), x)
      BY <1>0, <2>1, <3>1, SplitRunConcat
    <3>3. SplitRun(SplitStart, t) = st
      BY <2>3 DEF RunIs, st
    <3> QED BY <3>1, <3>2, <3>3
  <2>5. next \in Seq(C) /\ ended \in Seq(Fields(C)) /\ <<>> \in Seq(C)
    <3>1. Unescape(raw) \in Fields(C)
      BY UnescapeFront
    <3> QED BY <2>1, <3>1, AppendProperties
  <2>6. /\ SplitRun(Held(fields, raw), x) = Free(fields, next)
        /\ SplitRun(Free(fields, raw), x) =
              IF c = Bar THEN Free(ended, <<>>)
              ELSE IF c = Backslash THEN Held(fields, next) ELSE Free(fields, next)
    BY <2>1, SplitOne
  <2>7. BadBefore(t) => /\ Spoiled(C, Free(ended, <<>>)) /\ Spoiled(C, Free(fields, next))
    BY <2>1, <2>3, SpoiledStays DEF RunIs
  <2> HIDE DEF next, ended, x
  <2>8. CASE Pending(t)
    <3>1. ~Pending(u) /\ SplitRun(SplitStart, u) = Free(fields, next)
      BY <2>2, <2>4, <2>6, <2>8
    <3>2. BadBefore(u) => Spoiled(C, Free(fields, next))
      <4>1. SUFFICES ASSUME ~BadBefore(t), ~IsEscape(c) PROVE Spoiled(C, Free(fields, next))
        BY <2>2, <2>7
      <4>2. PICK row \in Seq(Seq(C)), v \in Seq(C) : WrittenAs(C, t, row, v)
        BY <4>1, LineIsWritten DEF D
      <4> DEFINE e == Escape(v)
                 b == Body(Append(row, v))
                 slash == <<Backslash>>
      <4>3. Backslash \in C /\ e \in Seq(C) /\ b \in Seq(C) /\ slash \in Seq(C) /\ Backslash # Bar
        BY EscapeAppend, BodyGrow, BarTyped DEF IsCharset, Backslash, Bar
      <4>4. t = b \o slash
        BY <2>8, <4>2, <4>3, AppendIsConcat DEF WrittenAs
      <4>5. SplitRun(SplitStart, b) = Free(row, e)
        BY SplitBody
      <4>6. row \in Seq(Fields(C))
        <5> DEFINE A == Seq(C)
        <5>1. A \subseteq Fields(C) /\ row \in Seq(A)
          BY DEF Fields
        <5> HIDE DEF A
        <5> QED BY <5>1, SeqMonotonic
      <4> HIDE DEF e, b
      <4>7. SplitRun(Free(row, e), slash) = Held(row, Append(e, Backslash))
        BY <4>3, <4>6, SplitOne
      <4> HIDE DEF slash
      <4>8. SplitRun(SplitStart, b \o slash) = SplitRun(SplitRun(SplitStart, b), slash)
        BY <1>0, <4>3, SplitRunConcat
      <4>9. Held(fields, raw) = Held(row, Append(e, Backslash))
        BY <2>3, <2>8, <4>4, <4>5, <4>7, <4>8 DEF RunIs
      <4>10. raw = Append(e, Backslash)
        <5>1. Held(fields, raw).raw = raw /\ Held(row, Append(e, Backslash)).raw = Append(e, Backslash)
          BY DEF Held
        <5> QED BY <4>9, <5>1
      <4>11. next = e \o <<Backslash, c>>
        <5> DEFINE y == <<c>>
        <5>1. slash \o y = <<Backslash, c>>
          BY PairIsConcat DEF slash
        <5>2. raw = e \o slash
          BY <4>3, <4>10, AppendIsConcat DEF slash
        <5>3. next = raw \o y
          BY <2>1, AppendIsConcat DEF next
        <5>4. y \in Seq(C) /\ e \in Seq(C) /\ slash \in Seq(C)
          BY <2>1, <4>3
        <5> HIDE DEF y
        <5>5. (e \o slash) \o y = e \o (slash \o y)
          <6>1. Regroups(e, slash, y)
            BY <5>4, Regroup
          <6> QED BY <6>1 DEF Regroups
        <5> QED BY <5>1, <5>2, <5>3, <5>5 DEF y
      <4>12. ASSUME NEW s \in Seq(C) PROVE Unescape(next \o s) = MalformedValue
        <5> DEFINE bad == <<Backslash, c>>
        <5>1. Unescape(bad \o s) = MalformedValue
          BY <2>1, <4>1, UnescapeFront
        <5>2. bad \in Seq(C) /\ s \in Seq(C) /\ e \in Seq(C)
          BY <2>1, <4>3
        <5> HIDE DEF bad
        <5>3. bad \o s \in Seq(C) /\ (e \o bad) \o s = e \o (bad \o s)
          <6>1. bad \o s \in Seq(C)
            BY ONLY <5>2, ConcatProperties
          <6>2. (e \o bad) \o s = e \o (bad \o s)
            <7>1. Regroups(e, bad, s)
              BY <5>2, Regroup
            <7> QED BY <7>1 DEF Regroups
          <6> QED BY <6>1, <6>2
        <5>4. Unescape(Escape(v) \o (bad \o s)) = MalformedValue
          BY <5>1, <5>3, UnescapeBad
        <5> QED BY <4>11, <5>3, <5>4 DEF e, bad
      <4>13. Free(fields, next).raw = next
        BY DEF Free
      <4> QED BY <4>12, <4>13 DEF Spoiled
    <3>3. RunIs(C, u, fields, next)
      BY <3>1, <3>2 DEF RunIs
    <3> QED BY <2>1, <2>5, <3>3
  <2>9. CASE ~Pending(t)
    <3>1. BadBefore(u) => BadBefore(t)
      BY <2>2, <2>9
    <3>2. CASE c = Bar
      <4>1. c # Backslash
        BY <3>2 DEF Bar, Backslash
      <4>2. ~Pending(u) /\ SplitRun(SplitStart, u) = Free(ended, <<>>)
        BY <2>2, <2>4, <2>6, <2>9, <3>2, <4>1
      <4>3. RunIs(C, u, ended, <<>>)
        BY <2>7, <3>1, <4>2 DEF RunIs
      <4> QED BY <2>1, <2>5, <4>3
    <3>3. CASE c = Backslash
      <4>1. c # Bar
        BY <3>3 DEF Bar, Backslash
      <4>2. Pending(u) /\ SplitRun(SplitStart, u) = Held(fields, next)
        BY <2>2, <2>4, <2>6, <2>9, <3>3, <4>1
      <4>3. RunIs(C, u, fields, next)
        BY <2>7, <3>1, <4>2 DEF RunIs
      <4> QED BY <2>1, <2>5, <4>3
    <3>4. CASE c # Bar /\ c # Backslash
      <4>1. ~Pending(u) /\ SplitRun(SplitStart, u) = Free(fields, next)
        BY <2>2, <2>4, <2>6, <2>9, <3>4
      <4>2. RunIs(C, u, fields, next)
        BY <2>7, <3>1, <4>1 DEF RunIs
      <4> QED BY <2>1, <2>5, <4>2
    <3> QED BY <3>2, <3>3, <3>4
  <2> QED BY <2>8, <2>9
<1> HIDE DEF P, D
<1>3. \A t \in Seq(D) : t \in P
  BY <1>1, <1>2, SeqInduct
<1> QED BY <1>3 DEF P, D

\* A line is refused for a bad escape only, and else it is that of the row read from it.
LEMMA SplitLine ==
  ASSUME NEW C, IsCharset(C), NEW t \in Seq(InLine(C))
  PROVE  IF HasBadEscape(t) THEN Split(t) = MalformedRow
         ELSE /\ Split(t) \in Seq(Seq(C)) /\ Split(t) # <<>> /\ Split(t) # MalformedRow
              /\ Body(Split(t)) = t
<1>1. t \in Seq(C) /\ (HasBadEscape(t) <=> BadBefore(t) \/ Pending(t))
  BY BarTyped, BadEscapes
<1>2. CASE HasBadEscape(t)
  <2>1. PICK fields \in Seq(Fields(C)), raw \in Seq(C) : RunIs(C, t, fields, raw)
    BY BadSpoils
  <2>2. CASE Pending(t)
    <3>1. SplitRun(SplitStart, t) = Held(fields, raw) /\ Held(fields, raw).escape_pending
      BY <2>1, <2>2 DEF RunIs, Held
    <3> QED BY <1>2, <3>1 DEF Split
  <2>3. CASE ~Pending(t)
    <3>1. SplitRun(SplitStart, t) = Free(fields, raw) /\ Spoiled(C, Free(fields, raw))
      BY <1>1, <1>2, <2>1, <2>3 DEF RunIs
    <3>2. MalformedValue \in ToSet(Append(fields, Unescape(raw)))
      BY <3>1, SpoiledStays
    <3>3. EndsField(Free(fields, raw)).fields = Append(fields, Unescape(raw))
      BY DEF EndsField, Free
    <3> QED BY <1>2, <3>1, <3>2, <3>3 DEF Split
  <2> QED BY <2>2, <2>3
<1>3. CASE ~HasBadEscape(t)
  <2>1. PICK row \in Seq(Seq(C)), v \in Seq(C) : t = Body(Append(row, v))
    BY <1>1, <1>3, LineIsWritten DEF WrittenAs
  <2> DEFINE more == Append(row, v)
             A == Seq(C)
  <2>2. more \in Seq(A) /\ more # <<>>
    <3> HIDE DEF A
    <3>1. row \in Seq(A) /\ v \in A
      BY DEF A
    <3> QED BY <3>1, AppendProperties
  <2> HIDE DEF more
  <2>3. Split(Body(more)) = more
    BY <2>2, ParseBody DEF A
  <2>4. more # MalformedRow
    <3>1. 1 \in 1..Len(more)
      <4>1. Len(more) \in Nat /\ Len(more) # 0
        BY <2>2, LenProperties, EmptySeq
      <4> QED BY <4>1
    <3>2. more[1] \in Seq(C)
      BY <2>2, <3>1, ElementOfSeq
    <3>3. MalformedRow[1] = MalformedValue
      BY DEF MalformedRow
    <3> QED BY <3>2, <3>3, NotMalformed
  <2> QED BY <1>3, <2>1, <2>2, <2>3, <2>4 DEF more, A
<1> QED BY <1>2, <1>3

-----------------------------------------------------------------------------
(* scan_table_rows_with_offsets.                                           *)

\* The places where a line of a file starts, and those of them with a malformed line.
Starts(f) == {i \in DOMAIN f : i = 1 \/ f[i - 1] = Newline}

BadStarts(f) == {i \in Starts(f) : HasBadEscape(ReadLine(f, i))}

LEMMA NextLineIs ==
  ASSUME NEW C, NEW f \in Seq(C), NEW i \in 1..Len(f)
  PROVE  /\ NextLine(f, i) \in (i + 1)..(Len(f) + 2)
         /\ NextLine(f, i) > Len(f) \/ NextLine(f, i) \in Starts(f)
         /\ \A j \in Starts(f) : i <= j => j = i \/ NextLine(f, i) <= j
         /\ ReadLine(f, i) \in Seq(InLine(C))
<1> DEFINE e == LineEnd(f, i)
<1>1. Len(f) \in Nat /\ DOMAIN f = 1..Len(f) /\ i \in Nat /\ i <= Len(f)
  BY LenProperties
<1>2. EndsLine(f, i, e)
  BY <1>1, LineEndIs
<1>3. NextLine(f, i) = e + 1
  BY DEF NextLine
<1> HIDE DEF e
<1>4. /\ e \in i..(Len(f) + 1) /\ (e <= Len(f) => f[e] = Newline)
      /\ \A j \in i..(e - 1) : f[j] # Newline
  BY <1>2 DEF EndsLine
<1>5. e + 1 \in (i + 1)..(Len(f) + 2)
  BY <1>1, <1>4
<1>6. e + 1 > Len(f) \/ e + 1 \in Starts(f)
  <2> SUFFICES ASSUME ~(e + 1 > Len(f)) PROVE e + 1 \in Starts(f)
    OBVIOUS
  <2>1. e + 1 \in 1..Len(f) /\ e <= Len(f) /\ (e + 1) - 1 = e
    BY <1>1, <1>4
  <2> QED BY <1>1, <1>4, <2>1 DEF Starts
<1>7. ASSUME NEW j \in Starts(f), i <= j PROVE j = i \/ e + 1 <= j
  <2> SUFFICES ASSUME j # i, j <= e PROVE FALSE
    BY <1>1, <1>4, <1>7 DEF Starts
  <2>1. j - 1 \in i..(e - 1) /\ j # 1 /\ f[j - 1] = Newline
    BY <1>1, <1>4, <1>7 DEF Starts
  <2> QED BY <1>4, <2>1
<1>8. ReadLine(f, i) \in Seq(InLine(C))
  <2>1. \A j \in i..(e - 1) : f[j] \in InLine(C)
    <3> TAKE j \in i..(e - 1)
    <3>1. j \in 1..Len(f)
      BY <1>1, <1>4
    <3>2. f[j] \in C
      BY <3>1, ElementOfSeq
    <3> QED BY <1>4, <3>2 DEF InLine
  <2>2. SubSeq(f, i, e - 1) \in Seq(InLine(C))
    BY <1>1, <1>4, <2>1, SubSeqProperties
  <2>3. WithoutReturn(SubSeq(f, i, e - 1)) \in Seq(InLine(C))
    BY <2>2, WithoutReturnTyped
  <2> QED BY <2>3 DEF ReadLine, e
<1> QED BY <1>3, <1>5, <1>6, <1>7, <1>8

\* The row of a line has the schema's columns, and there is none for a bad escape only.
LEMMA ParsedIs ==
  ASSUME NEW C, IsCharset(C), NEW t \in Seq(InLine(C)), NEW k \in Nat \ {0}
  PROVE  /\ ParseLine(t, k) = MalformedRow <=> HasBadEscape(t)
         /\ ~HasBadEscape(t) => Len(ParseLine(t, k)) = k
<1>1. CASE HasBadEscape(t)
  <2>1. Split(t) = MalformedRow
    BY <1>1, SplitLine
  <2> QED BY <1>1, <2>1 DEF ParseLine
<1>2. CASE ~HasBadEscape(t)
  <2> DEFINE row == Split(t)
             read == Normalize(row, k)
  <2>1. row \in Seq(Seq(C)) /\ row # <<>> /\ row # MalformedRow
    BY <1>2, SplitLine
  <2>2. ParseLine(t, k) = read
    BY <2>1 DEF ParseLine
  <2> HIDE DEF row
  <2>3. DOMAIN row = 1..Len(row) /\ Len(row) \in Nat \ {0} /\ \A i \in 1..Len(row) : row[i] \in Seq(C)
    BY <2>1, LenProperties, ElementOfSeq, EmptySeq
  <2>4. read \in [1..k -> Seq(C)] /\ read[1] = row[1] /\ row[1] \in Seq(C)
    <3>1. <<>> \in Seq(C) /\ 1 \in 1..k /\ 1 \in 1..Len(row)
      BY <2>3
    <3> QED BY <2>3, <3>1 DEF Normalize
  <2> HIDE DEF read
  <2>5. Len(read) = k
    BY <2>4, FunctionIsSeq
  <2>6. read # MalformedRow
    <3>1. MalformedRow[1] = MalformedValue
      BY DEF MalformedRow
    <3> QED BY <2>4, <3>1, NotMalformed
  <2> QED BY <1>2, <2>2, <2>5, <2>6
<1> QED BY <1>1, <1>2

ScanEnd == [rows |-> <<>>, ok |-> TRUE]

ScanStop == [rows |-> <<>>, ok |-> FALSE]

Entry(f, k, i) == [offset |-> i, row |-> ParseLine(ReadLine(f, i), k)]

Entries(f, k) == {Entry(f, k, i) : i \in 1..Len(f)}

Scanned(f, k) == [rows : Seq(Entries(f, k)), ok : BOOLEAN]

\* The result from place i on when from holds those from the places behind it.
ScanPart(f, k, i, from) ==
    IF i > Len(f) THEN ScanEnd
    ELSE IF ParseLine(ReadLine(f, i), k) = MalformedRow THEN ScanStop
    ELSE [from[NextLine(f, i)] EXCEPT !.rows = <<Entry(f, k, i)>> \o @]

Scans(from, f, k) ==
    /\ from \in [1..(Len(f) + 3) -> Scanned(f, k)]
    /\ \A i \in 1..(Len(f) + 3) : from[i] = ScanPart(f, k, i, from)
    /\ Scan(f, k) = from[1]

LEMMA ScanPartTyped ==
  ASSUME NEW C, NEW f \in Seq(C), NEW k, NEW i \in 1..(Len(f) + 3),
         NEW h \in [1..(Len(f) + 3) -> Scanned(f, k)]
  PROVE  ScanPart(f, k, i, h) \in Scanned(f, k)
<1>1. Len(f) \in Nat
  BY LenProperties
<1>2. ScanEnd \in Scanned(f, k) /\ ScanStop \in Scanned(f, k)
  <2> DEFINE E == Entries(f, k)
  <2> HIDE DEF E
  <2>1. ScanEnd \in [rows : Seq(E), ok : BOOLEAN] /\ ScanStop \in [rows : Seq(E), ok : BOOLEAN]
    BY DEF ScanEnd, ScanStop
  <2> QED BY <2>1 DEF Scanned, E
<1>3. CASE i > Len(f)
  BY <1>2, <1>3 DEF ScanPart
<1>4. CASE ~(i > Len(f))
  <2>1. i \in 1..Len(f)
    BY <1>1, <1>4
  <2>2. NextLine(f, i) \in 1..(Len(f) + 3)
    <3>1. NextLine(f, i) \in (i + 1)..(Len(f) + 2)
      BY <2>1, NextLineIs
    <3> QED BY <1>1, <2>1, <3>1
  <2> DEFINE rest == h[NextLine(f, i)]
             x == Entry(f, k, i)
             E == Entries(f, k)
  <2>3. rest \in [rows : Seq(E), ok : BOOLEAN]
    BY <2>2 DEF Scanned
  <2>4. x \in E
    BY <2>1 DEF Entries
  <2>5. ScanPart(f, k, i, h) = IF ParseLine(ReadLine(f, i), k) = MalformedRow THEN ScanStop
                               ELSE [rest EXCEPT !.rows = <<x>> \o rest.rows]
    BY <1>4 DEF ScanPart
  <2> HIDE DEF rest, x, E
  <2>6. <<x>> \o rest.rows \in Seq(E)
    <3>1. rest.rows \in Seq(E) /\ <<x>> \in Seq(E)
      BY <2>3, <2>4
    <3> QED BY <3>1, ConcatProperties
  <2> DEFINE more == <<x>> \o rest.rows
  <2> HIDE DEF more
  <2>7. [rest EXCEPT !.rows = more] \in [rows : Seq(E), ok : BOOLEAN]
    BY <2>3, <2>6 DEF more
  <2> QED BY <1>2, <2>5, <2>7 DEF Scanned, E, more
<1> QED BY <1>3, <1>4

LEMMA ScanSteps ==
  ASSUME NEW C, NEW f \in Seq(C), NEW k
  PROVE  \E from : Scans(from, f, k)
<1> DEFINE M == Len(f) + 3
           V == Scanned(f, k)
           G == [p \in (1..M) \X [1..M -> V] |-> ScanPart(f, k, p[1], p[2])]
           nothing == ScanEnd
<1>0. Len(f) \in Nat
  BY LenProperties
<1>1. M \in Nat /\ nothing \in V
  <2>1. ScanEnd \in Scanned(f, k)
    <3> DEFINE E == Entries(f, k)
    <3> HIDE DEF E
    <3>1. ScanEnd \in [rows : Seq(E), ok : BOOLEAN]
      BY DEF ScanEnd
    <3> QED BY <3>1 DEF Scanned, E
  <2> QED BY <1>0, <2>1
<1>2. \A i \in 1..M : \A h \in [1..M -> V] : G[<<i, h>>] = ScanPart(f, k, i, h)
  OBVIOUS
<1>3. \A i \in 1..M : \A h \in [1..M -> V] : G[<<i, h>>] \in V
  BY <1>2, ScanPartTyped
<1>4. ASSUME NEW i \in 1..M, NEW h, NEW g, \A j \in (i + 1)..M : h[j] = g[j]
      PROVE  ScanPart(f, k, i, h) = ScanPart(f, k, i, g)
  <2>1. CASE i > Len(f)
    BY <2>1 DEF ScanPart
  <2>2. CASE ~(i > Len(f))
    <3>1. i \in 1..Len(f)
      BY <1>0, <2>2
    <3>2. NextLine(f, i) \in (i + 1)..(Len(f) + 2)
      BY <3>1, NextLineIs
    <3>3. NextLine(f, i) \in (i + 1)..M
      BY <1>0, <3>1, <3>2
    <3>4. h[NextLine(f, i)] = g[NextLine(f, i)]
      BY <1>4, <3>3
    <3> QED BY <2>2, <3>4 DEF ScanPart
  <2> QED BY <2>1, <2>2
<1>5. FillsDown(G, M, V)
  <2>1. ASSUME NEW i \in 1..M, NEW h \in [1..M -> V], NEW g \in [1..M -> V],
               \A j \in (i + 1)..M : h[j] = g[j]
        PROVE  G[<<i, h>>] = G[<<i, g>>]
    <3>1. ScanPart(f, k, i, h) = ScanPart(f, k, i, g)
      <4> HIDE DEF M, V, G
      <4> QED BY <1>4, <2>1
    <3> QED BY <1>2, <3>1
  <2> HIDE DEF G, M, V
  <2> QED BY <1>3, <2>1 DEF FillsDown
<1> HIDE DEF G, nothing, V, M
<1>6. PICK g : IsFilled(g, G, M, V)
  BY <1>1, <1>5, Downward
<1> DEFINE Is(from) == from = [offset \in 1..(Len(f) + 3) |->
                           IF offset > Len(f) THEN [rows |-> <<>>, ok |-> TRUE]
                           ELSE LET row == ParseLine(ReadLine(f, offset), k)
                                    rest == from[NextLine(f, offset)]
                                IN IF row = MalformedRow THEN [rows |-> <<>>, ok |-> FALSE]
                                   ELSE [rest EXCEPT !.rows = <<[offset |-> offset, row |-> row]>> \o @]]
           found == CHOOSE from : Is(from)
<1>7. Is(g)
  <2>1. g \in [1..M -> V] /\ \A i \in 1..M : g[i] = ScanPart(f, k, i, g)
    BY <1>2, <1>6 DEF IsFilled
  <2> QED BY <2>1 DEF ScanPart, M, ScanEnd, ScanStop, Entry
<1>8. Is(found)
  <2> HIDE DEF Is
  <2> QED BY <1>7
<1>9. Scan(f, k) = found[1]
  BY DEF Scan
<1> HIDE DEF found
<1>10. /\ DOMAIN found = 1..M /\ found = [i \in 1..M |-> found[i]]
       /\ \A i \in 1..M : found[i] = ScanPart(f, k, i, found)
  BY <1>8 DEF ScanPart, M, ScanEnd, ScanStop, Entry
<1> HIDE DEF Is
<1>11. \A i \in 1..M : found[i] \in V
  <2> DEFINE T == {i \in 1..M : found[i] \in V}
  <2>1. ASSUME NEW i \in 1..M, \A j \in (i + 1)..M : j \in T PROVE i \in T
    <3> DEFINE h == [j \in 1..M |-> IF i < j THEN found[j] ELSE nothing]
    <3>1. h \in [1..M -> V]
      <4> SUFFICES ASSUME NEW j \in 1..M PROVE (IF i < j THEN found[j] ELSE nothing) \in V
        OBVIOUS
      <4>1. i < j => j \in T
        BY <1>1, <2>1
      <4> QED BY <1>1, <4>1
    <3>2. ScanPart(f, k, i, h) = ScanPart(f, k, i, found)
      <4>1. \A j \in (i + 1)..M : h[j] = found[j]
        BY <1>1
      <4> HIDE DEF h
      <4> QED BY <1>4, <4>1
    <3> HIDE DEF h
    <3>3. ScanPart(f, k, i, h) \in V
      BY <3>1, ScanPartTyped DEF M, V
    <3> QED BY <1>10, <3>2, <3>3
  <2> HIDE DEF T
  <2>2. \A i \in 1..M : i \in T
    BY <1>1, <2>1, DownTo
  <2> QED BY <2>2 DEF T
<1>12. found \in [1..M -> V]
  BY <1>10, <1>11
<1> QED BY <1>9, <1>10, <1>12 DEF Scans, M, V

\* The lines a scan from place i on comes to.
ReadFrom(f, i) == {j \in Starts(f) : i <= j /\ \A b \in BadStarts(f) : i <= b => j < b}

FoundFrom(f, k, i, r) ==
    /\ r.ok <=> \A b \in BadStarts(f) : b < i
    /\ r.rows \in Seq(Entries(f, k))
    /\ \A n \in DOMAIN r.rows : \E j \in ReadFrom(f, i) : r.rows[n] = Entry(f, k, j)
    /\ \A j \in ReadFrom(f, i) : \E n \in DOMAIN r.rows : r.rows[n] = Entry(f, k, j)
    /\ \A n \in DOMAIN r.rows : n > 1 => r.rows[n - 1].offset < r.rows[n].offset

LEMMA StartsTyped ==
  ASSUME NEW C, NEW f \in Seq(C)
  PROVE  /\ Starts(f) \subseteq 1..Len(f) /\ BadStarts(f) \subseteq Starts(f) /\ Len(f) \in Nat
         /\ \A i \in Int : ReadFrom(f, i) \subseteq Starts(f)
BY LenProperties DEF Starts, BadStarts, ReadFrom

LEMMA FoundAtOnce ==
  ASSUME NEW C, IsCharset(C), NEW f \in Seq(C), NEW k \in Nat \ {0}, NEW from, Scans(from, f, k)
  PROVE  /\ \A i \in 1..(Len(f) + 3) : i > Len(f) => FoundFrom(f, k, i, from[i])
         /\ \A i \in BadStarts(f) : FoundFrom(f, k, i, from[i])
<1> DEFINE none == <<>>
<1>1. none \in Seq(Entries(f, k)) /\ DOMAIN none = {}
  OBVIOUS
<1>2. /\ ScanEnd.rows = none /\ (ScanEnd.ok <=> TRUE)
      /\ ScanStop.rows = none /\ (ScanStop.ok <=> FALSE)
  BY DEF ScanEnd, ScanStop
<1> HIDE DEF none
<1>3. /\ Starts(f) \subseteq 1..Len(f) /\ BadStarts(f) \subseteq Starts(f) /\ Len(f) \in Nat
  BY StartsTyped
<1>4. ASSUME NEW i \in 1..(Len(f) + 3), i > Len(f) PROVE FoundFrom(f, k, i, from[i])
  <2>1. from[i] = ScanEnd
    BY <1>4 DEF Scans, ScanPart
  <2>2. ReadFrom(f, i) = {} /\ \A b \in BadStarts(f) : b < i
    BY <1>3, <1>4 DEF ReadFrom
  <2> QED BY <1>1, <1>2, <2>1, <2>2 DEF FoundFrom
<1>5. ASSUME NEW i \in BadStarts(f) PROVE FoundFrom(f, k, i, from[i])
  <2>1. i \in 1..Len(f) /\ i \in 1..(Len(f) + 3) /\ ~(i > Len(f))
    BY <1>3
  <2>2. ParseLine(ReadLine(f, i), k) = MalformedRow
    <3>1. ReadLine(f, i) \in Seq(InLine(C)) /\ HasBadEscape(ReadLine(f, i))
      BY <2>1, NextLineIs DEF BadStarts
    <3> QED BY <3>1, ParsedIs
  <2>3. from[i] = ScanStop
    BY <2>1, <2>2 DEF Scans, ScanPart
  <2>4. ReadFrom(f, i) = {} /\ ~(\A b \in BadStarts(f) : b < i)
    BY <1>3, <2>1 DEF ReadFrom
  <2> QED BY <1>1, <1>2, <2>3, <2>4 DEF FoundFrom
<1> QED BY <1>4, <1>5

LEMMA FoundStep ==
  ASSUME NEW C, IsCharset(C), NEW f \in Seq(C), NEW k \in Nat \ {0}, NEW from, Scans(from, f, k),
         NEW i \in Starts(f), i \notin BadStarts(f),
         FoundFrom(f, k, NextLine(f, i), from[NextLine(f, i)])
  PROVE  FoundFrom(f, k, i, from[i])
<1> DEFINE m == NextLine(f, i)
           rest == from[m]
           x == Entry(f, k, i)
           E == Entries(f, k)
           tail == rest.rows
           rows == <<x>> \o tail
<1>1. /\ Starts(f) \subseteq 1..Len(f) /\ BadStarts(f) \subseteq Starts(f) /\ Len(f) \in Nat
      /\ i \in 1..Len(f) /\ i \in 1..(Len(f) + 3) /\ ~(i > Len(f))
  BY StartsTyped
<1>2. /\ m \in (i + 1)..(Len(f) + 2) /\ \A j \in Starts(f) : i <= j => j = i \/ m <= j
      /\ ReadLine(f, i) \in Seq(InLine(C))
  BY <1>1, NextLineIs
<1>3. ParseLine(ReadLine(f, i), k) # MalformedRow
  BY <1>2, ParsedIs DEF BadStarts
<1>4. m \in 1..(Len(f) + 3)
  BY <1>1, <1>2
<1> HIDE DEF m
<1>5. rest \in [rows : Seq(E), ok : BOOLEAN]
  BY <1>4 DEF Scans, Scanned
<1>6. from[i] = [rest EXCEPT !.rows = rows]
  BY <1>1, <1>3 DEF Scans, ScanPart, m
<1>7. FoundFrom(f, k, m, rest)
  BY DEF m
<1>8. x \in E /\ x.offset = i
  BY <1>1 DEF Entries, Entry
<1> HIDE DEF rest, x, E, rows
<1>9. from[i].rows = rows /\ (from[i].ok <=> rest.ok)
  <2>1. from[i].rows = rows
    BY <1>5, <1>6
  <2>2. from[i].ok = rest.ok
    BY <1>5, <1>6
  <2> QED BY <2>1, <2>2
<1>10. tail \in Seq(E) /\ Len(tail) \in Nat /\ DOMAIN tail = 1..Len(tail)
  BY <1>5, LenProperties
<1> HIDE DEF tail
<1>11. /\ rows \in Seq(E) /\ DOMAIN rows = 1..(Len(tail) + 1)
       /\ rows[1] = x /\ \A n \in 1..Len(tail) : rows[n + 1] = tail[n]
  <2>1. <<x>> \in Seq(E) /\ Len(<<x>>) = 1 /\ <<x>>[1] = x
    BY <1>8
  <2> DEFINE one == <<x>>
  <2> HIDE DEF one
  <2>2. /\ one \o tail \in Seq(E) /\ Len(one \o tail) = Len(one) + Len(tail)
        /\ \A n \in 1..(Len(one) + Len(tail)) :
              (one \o tail)[n] = IF n <= Len(one) THEN one[n] ELSE tail[n - Len(one)]
    BY <1>10, <2>1, ConcatProperties DEF one
  <2>3. rows = one \o tail /\ Len(one) = 1 /\ one[1] = x
    BY <2>1 DEF rows, one
  <2>4. rows \in Seq(E) /\ Len(rows) = Len(tail) + 1
    BY <1>10, <2>2, <2>3
  <2>5. DOMAIN rows = 1..(Len(tail) + 1)
    BY <2>4, LenProperties
  <2>6. rows[1] = x
    BY <1>10, <2>2, <2>3
  <2>7. ASSUME NEW n \in 1..Len(tail) PROVE rows[n + 1] = tail[n]
    <3>1. n + 1 \in 1..(1 + Len(tail)) /\ ~(n + 1 <= 1) /\ (n + 1) - 1 = n
      BY <1>10
    <3> QED BY <2>2, <2>3, <3>1
  <2> QED BY <2>4, <2>5, <2>6, <2>7
<1>12. ReadFrom(f, i) = {i} \cup ReadFrom(f, m)
  <2>1. \A b \in BadStarts(f) : i <= b <=> m <= b
    BY <1>1, <1>2
  <2>2. \A b \in BadStarts(f) : i <= b => i < b
    BY <1>1
  <2>3. i \in ReadFrom(f, i)
    BY <1>1, <2>2 DEF ReadFrom
  <2>4. \A j \in Starts(f) : j # i => (i <= j <=> m <= j)
    BY <1>1, <1>2
  <2>5. ~(m <= i)
    BY <1>1, <1>2
  <2>6. \A j \in Starts(f) : j # i => (j \in ReadFrom(f, i) <=> j \in ReadFrom(f, m))
    BY <2>1, <2>4 DEF ReadFrom
  <2>7. ReadFrom(f, i) \subseteq Starts(f) /\ ReadFrom(f, m) \subseteq Starts(f)
    BY DEF ReadFrom
  <2> QED BY <2>3, <2>6, <2>7
<1>13. from[i].ok <=> \A b \in BadStarts(f) : b < i
  <2>1. rest.ok <=> \A b \in BadStarts(f) : b < m
    BY <1>7 DEF FoundFrom
  <2>2. \A b \in BadStarts(f) : b < m <=> b < i
    BY <1>1, <1>2
  <2> QED BY <1>9, <2>1, <2>2
<1>14. /\ \A n \in 1..Len(tail) : \E j \in ReadFrom(f, m) : tail[n] = Entry(f, k, j)
       /\ \A j \in ReadFrom(f, m) : \E n \in 1..Len(tail) : tail[n] = Entry(f, k, j)
       /\ \A n \in 1..Len(tail) : n > 1 => tail[n - 1].offset < tail[n].offset
  BY <1>7, <1>10 DEF FoundFrom, tail
<1>15. ASSUME NEW n \in 1..(Len(tail) + 1)
       PROVE  n = 1 \/ (n - 1 \in 1..Len(tail) /\ rows[n] = tail[n - 1])
  <2> SUFFICES ASSUME n # 1 PROVE n - 1 \in 1..Len(tail) /\ rows[n] = tail[n - 1]
    OBVIOUS
  <2>1. n - 1 \in 1..Len(tail) /\ (n - 1) + 1 = n
    BY <1>10
  <2> QED BY <1>11, <2>1
<1>16. \A n \in 1..(Len(tail) + 1) : \E j \in ReadFrom(f, i) : rows[n] = Entry(f, k, j)
  <2> SUFFICES ASSUME NEW n \in 1..(Len(tail) + 1)
               PROVE  \E j \in ReadFrom(f, i) : rows[n] = Entry(f, k, j)
    OBVIOUS
  <2>1. CASE n = 1
    <3>1. i \in ReadFrom(f, i) /\ rows[n] = Entry(f, k, i)
      BY <1>11, <1>12, <2>1 DEF x
    <3> QED BY <3>1
  <2>2. CASE n # 1
    <3>1. n - 1 \in 1..Len(tail) /\ rows[n] = tail[n - 1]
      BY <1>15, <2>2
    <3>2. PICK j \in ReadFrom(f, m) : tail[n - 1] = Entry(f, k, j)
      BY <1>14, <3>1
    <3> QED BY <1>12, <3>1, <3>2
  <2> QED BY <2>1, <2>2
<1>17. ASSUME NEW j \in ReadFrom(f, i) PROVE \E n \in 1..(Len(tail) + 1) : rows[n] = Entry(f, k, j)
  <2>1. CASE j = i
    <3>1. 1 \in 1..(Len(tail) + 1)
      BY <1>10
    <3> QED BY <1>11, <2>1, <3>1 DEF x
  <2>2. CASE j # i
    <3>1. PICK n \in 1..Len(tail) : tail[n] = Entry(f, k, j)
      BY <1>12, <1>14, <2>2
    <3>2. n + 1 \in 1..(Len(tail) + 1) /\ rows[n + 1] = Entry(f, k, j)
      BY <1>10, <1>11, <3>1
    <3> QED BY <3>2
  <2> QED BY <2>1, <2>2
<1>18. ASSUME NEW n \in 1..(Len(tail) + 1), n > 1 PROVE rows[n - 1].offset < rows[n].offset
  <2>1. n - 1 \in 1..Len(tail) /\ rows[n] = tail[n - 1]
    BY <1>15, <1>18
  <2>2. CASE n = 2
    <3>1. rows[n - 1].offset = i
      BY <1>8, <1>11, <2>2
    <3>2. PICK j \in ReadFrom(f, m) : tail[n - 1] = Entry(f, k, j)
      BY <1>14, <2>1
    <3>3. rows[n].offset = j /\ m <= j /\ j \in 1..Len(f)
      BY <1>1, <2>1, <3>2 DEF Entry, ReadFrom
    <3> QED BY <1>1, <1>2, <3>1, <3>3
  <2>3. CASE n # 2
    <3>1. n - 1 \in 1..(Len(tail) + 1) /\ n - 1 > 1 /\ n - 1 # 1
      BY <1>10, <1>18, <2>1, <2>3
    <3>2. rows[n - 1] = tail[(n - 1) - 1]
      BY <1>15, <3>1
    <3> QED BY <1>14, <2>1, <3>1, <3>2
  <2> QED BY <2>2, <2>3
<1> QED BY <1>9, <1>11, <1>13, <1>16, <1>17, <1>18 DEF FoundFrom, E

LEMMA ScanIs ==
  ASSUME NEW C, IsCharset(C), NEW f \in Seq(C), NEW k \in Nat \ {0}
  PROVE  FoundFrom(f, k, 1, Scan(f, k))
<1>1. PICK from : Scans(from, f, k)
  BY ScanSteps
<1> DEFINE N == Len(f) + 3
           T == {i \in 1..N : i > Len(f) \/ i \in Starts(f) => FoundFrom(f, k, i, from[i])}
<1>2. Len(f) \in Nat /\ N \in Nat /\ 1 \in 1..N
  BY LenProperties
<1>3. ASSUME NEW i \in 1..N, \A j \in (i + 1)..N : j \in T PROVE i \in T
  <2> SUFFICES ASSUME i > Len(f) \/ i \in Starts(f) PROVE FoundFrom(f, k, i, from[i])
    OBVIOUS
  <2>1. CASE i > Len(f)
    BY <1>1, <2>1, FoundAtOnce
  <2>2. CASE i \in BadStarts(f)
    BY <1>1, <2>2, FoundAtOnce
  <2>3. CASE ~(i > Len(f)) /\ i \notin BadStarts(f)
    <3>1. i \in Starts(f) /\ i \in 1..Len(f)
      BY <1>2, <2>3
    <3> DEFINE m == NextLine(f, i)
    <3>2. m \in (i + 1)..(Len(f) + 2) /\ (m > Len(f) \/ m \in Starts(f))
      BY <3>1, NextLineIs
    <3>3. m \in (i + 1)..N
      BY <1>2, <3>1, <3>2
    <3>4. FoundFrom(f, k, m, from[m])
      BY <1>3, <3>2, <3>3
    <3> QED BY <1>1, <2>3, <3>1, <3>4, FoundStep
  <2> QED BY <2>1, <2>2, <2>3
<1> HIDE DEF T
<1>4. 1 \in T
  <2> HIDE DEF N
  <2>1. \A i \in 1..N : i \in T
    BY <1>2, <1>3, DownTo
  <2> QED BY <1>2, <2>1
<1>5. 1 > Len(f) \/ 1 \in Starts(f)
  BY <1>2, LenProperties DEF Starts
<1>6. FoundFrom(f, k, 1, from[1])
  BY <1>4, <1>5 DEF T
<1> QED BY <1>1, <1>6 DEF Scans

-----------------------------------------------------------------------------
(* Text: the readers are given sequences of their characters.              *)

TextTyped == reader \in DOMAIN Alphabet /\ text \in Seq(Alphabet[reader])

LEMMA TextIsTyped == TextSpec => []TextTyped
<1>1. TextInit => TextTyped
  BY EmptySeq DEF TextInit, TextTyped
<1>2. TextTyped /\ [Grow]_<<reader, text>> => TextTyped'
  <2> SUFFICES ASSUME TextTyped, [Grow]_<<reader, text>> PROVE TextTyped'
    OBVIOUS
  <2>1. CASE Grow
    <3>1. PICK char \in Alphabet[reader] : text' = Append(text, char)
      BY <2>1 DEF Grow
    <3>2. reader' = reader
      BY <2>1 DEF Grow
    <3> DEFINE A == Alphabet[reader]
    <3>3. text \in Seq(A) /\ char \in A
      BY <3>1 DEF TextTyped
    <3> HIDE DEF A
    <3>4. text' \in Seq(A)
      BY <3>1, <3>3, AppendProperties
    <3> QED BY <3>2, <3>4 DEF TextTyped, A
  <2>2. CASE UNCHANGED <<reader, text>>
    BY <2>2 DEF TextTyped
  <2> QED BY <2>1, <2>2
<1> QED BY <1>1, <1>2, PTL DEF TextSpec

\* The characters of data files among those of the rows reader.
RowChars == Alphabet["rows"] \cup {Backslash, Bar, Newline, "n"}

LEMMA RowCharset == IsCharset(RowChars)
BY AlphabetAssumption DEF IsCharset, RowChars, Backslash, Bar, Newline

\* A line that starts a file holds itself.
LEMMA LineHeld ==
  ASSUME NEW C, NEW line \in Seq(C)
  PROVE  Holds(line, 1, line)
<1>1. Len(line) \in Nat
  BY LenProperties
<1>2. 1 + Len(line) - 1 = Len(line) /\ \A i \in 1..Len(line) : 1 + i - 1 = i
  BY <1>1
<1> QED BY <1>1, <1>2 DEF Holds

\* Every row of two values comes back from its line, but for a carriage return at its end
\* (append_row_to_table_with_offset, read_row_at_offset).
THEOREM RowsAreReadBack == TextSpec => []RowsRoundTrip
<1>1. TextTyped => RowsRoundTrip
  <2> SUFFICES ASSUME TextTyped, reader = "rows", NEW cut \in 0..Len(text)
               PROVE  LET row == <<Before(cut), Behind(cut)>>
                          line == Line(row)
                      IN /\ \A i \in DOMAIN line : line[i] = Newline <=> i = Len(line)
                         /\ RowAtOffset(line, 1, 2) = <<row[1], WithoutReturn(row[2])>>
    BY DEF RowsRoundTrip
  <2> DEFINE C == RowChars
             a == Before(cut)
             b == Behind(cut)
             row == <<a, b>>
             line == Line(row)
  <2>1. text \in Seq(C) /\ Len(text) \in Nat
    <3>1. Alphabet["rows"] \subseteq C
      BY DEF RowChars
    <3>2. text \in Seq(Alphabet["rows"])
      BY DEF TextTyped
    <3> QED BY <3>1, <3>2, SeqMonotonic, LenProperties
  <2>2. a \in Seq(C) /\ b \in Seq(C)
    <3> HIDE DEF C
    <3>1. \A i \in 1..Len(text) : text[i] \in C
      BY <2>1, ElementOfSeq
    <3>2. SubSeq(text, 1, cut) \in Seq(C)
      <4>1. \A i \in 1..cut : text[i] \in C
        BY <2>1, <3>1
      <4> QED BY <4>1, SubSeqProperties
    <3>3. SubSeq(text, cut + 1, Len(text)) \in Seq(C)
      <4>1. \A i \in (cut + 1)..Len(text) : text[i] \in C
        BY <3>1
      <4> QED BY <2>1, <4>1, SubSeqProperties
    <3> QED BY <3>2, <3>3 DEF Before, Behind
  <2> HIDE DEF a, b
  <2>3. /\ row \in Seq(Seq(C)) /\ row # <<>> /\ Len(row) = 2
        /\ WithoutLastReturn(row) = <<row[1], WithoutReturn(row[2])>>
    <3>1. row \in Seq(Seq(C)) /\ Len(row) = 2 /\ row # <<>>
      BY <2>2
    <3>2. WithoutLastReturn(row) = [row EXCEPT ![2] = WithoutReturn(row[2])]
      BY <3>1 DEF WithoutLastReturn
    <3> QED BY <3>1, <3>2
  <2> HIDE DEF row, C
  <2>4. IsCharset(C)
    BY RowCharset DEF C
  <2>5. line \in Seq(C) /\ \A i \in DOMAIN line : line[i] = Newline <=> i = Len(line)
    BY <2>3, <2>4, LineShape
  <2>6. Holds(line, 1, Line(row))
    BY <2>5, LineHeld
  <2> HIDE DEF line
  <2>7. RowAtOffset(line, 1, Len(row)) = WithoutLastReturn(row)
    <3>1. row \in Seq(Seq(C)) /\ row # <<>>
      BY <2>3
    <3>2. line \in Seq(C) /\ 1 \in Nat \ {0}
      BY <2>5
    <3> QED BY ONLY <2>4, <2>6, <3>1, <3>2, RowHeld
  <2> QED BY <2>3, <2>5, <2>7 DEF line, row, a, b
<1> QED BY <1>1, TextIsTyped, PTL

\* A text is a line unless it has a newline in it.
LEMMA RowText ==
  ASSUME TextTyped, reader = "rows"
  PROVE  /\ text \in Seq(RowChars) /\ Len(text) \in Nat
         /\ Newline \notin ToSet(text) => text \in Seq(InLine(RowChars))
<1>1. text \in Seq(RowChars)
  <2>1. Alphabet["rows"] \subseteq RowChars
    BY DEF RowChars
  <2>2. text \in Seq(Alphabet["rows"])
    BY DEF TextTyped
  <2> QED BY <2>1, <2>2, SeqMonotonic
<1>2. Len(text) \in Nat /\ DOMAIN text = 1..Len(text) /\ text = [i \in 1..Len(text) |-> text[i]]
  BY <1>1, LenProperties
<1>3. ASSUME Newline \notin ToSet(text) PROVE text \in Seq(InLine(RowChars))
  <2> DEFINE D == InLine(RowChars)
             n == Len(text)
  <2>1. \A i \in 1..n : text[i] \in D
    <3> TAKE i \in 1..n
    <3>1. text[i] \in RowChars
      BY <1>1, ElementOfSeq
    <3>2. text[i] # Newline
      BY <1>2, <1>3 DEF ToSet
    <3> QED BY <3>1, <3>2 DEF InLine
  <2> HIDE DEF D
  <2>2. n \in Nat /\ text \in [1..n -> D]
    BY <1>2, <2>1
  <2> HIDE DEF n
  <2> QED BY <2>2, FunctionIsSeq DEF D
<1> QED BY <1>1, <1>2, <1>3

\* A line is refused for a bad escape only, and otherwise it is the line that its row is
\* written as (split_escaped_row).
THEOREM LinesAreTheirRows == TextSpec => []LinesAreCanonical
<1>1. TextTyped => LinesAreCanonical
  <2> SUFFICES ASSUME TextTyped, reader = "rows", Newline \notin ToSet(text)
               PROVE  IF Split(text) = MalformedRow THEN HasBadEscape(text)
                      ELSE ~HasBadEscape(text) /\ Line(Split(text)) = Append(text, Newline)
    BY DEF LinesAreCanonical
  <2> DEFINE C == RowChars
             row == Split(text)
  <2>1. IsCharset(C) /\ text \in Seq(InLine(C))
    BY RowCharset, RowText
  <2> HIDE DEF C
  <2>2. CASE HasBadEscape(text)
    BY <2>1, <2>2, SplitLine
  <2>3. CASE ~HasBadEscape(text)
    <3>1. row \in Seq(Seq(C)) /\ row # MalformedRow /\ Body(row) = text
      BY <2>1, <2>3, SplitLine
    <3> HIDE DEF row
    <3>2. Line(row) = Body(row) \o <<Newline>>
      BY <2>1, <3>1, LineShape
    <3>3. text \in Seq(C) /\ Newline \in C
      BY <2>1, BarTyped DEF IsCharset
    <3>4. Append(text, Newline) = text \o <<Newline>>
      BY <3>3, AppendIsConcat
    <3> QED BY <2>3, <3>1, <3>2, <3>4 DEF row
  <2> QED BY <2>2, <2>3
<1> QED BY <1>1, TextIsTyped, PTL

\* A scan finds the row of every line before the first malformed one, at the offset that
\* leads to it (scan_table_rows_with_offsets, read_row_at_offset).
THEOREM EveryLineIsFound == TextSpec => []ScanFindsEveryLine
<1>1. TextTyped => ScanFindsEveryLine
  <2> SUFFICES ASSUME TextTyped, reader = "rows" PROVE ScanFindsEveryLine
    BY DEF ScanFindsEveryLine
  <2> DEFINE C == RowChars
             found == Scan(text, 2)
             rows == found.rows
             starts == Starts(text)
             bad == BadStarts(text)
  <2>1. IsCharset(C) /\ text \in Seq(C) /\ Len(text) \in Nat
    BY RowCharset, RowText
  <2> HIDE DEF C
  <2>2. FoundFrom(text, 2, 1, found)
    BY <2>1, ScanIs
  <2> HIDE DEF found
  <2>3. starts \subseteq 1..Len(text) /\ bad \subseteq starts
    BY <2>1, StartsTyped
  <2>4. ReadFrom(text, 1) = {i \in starts : \A j \in bad : i < j}
    <3>1. (\A i \in starts : 1 <= i) /\ (\A j \in bad : 1 <= j)
      BY <2>1, <2>3
    <3> QED BY <3>1 DEF ReadFrom
  <2>5. found.ok <=> bad = {}
    <3>1. found.ok <=> \A b \in bad : b < 1
      BY <2>2 DEF FoundFrom
    <3>2. \A b \in bad : ~(b < 1)
      BY <2>1, <2>3
    <3> HIDE DEF bad
    <3> QED BY <3>1, <3>2
  <2>6. /\ \A n \in DOMAIN rows : \E j \in ReadFrom(text, 1) : rows[n] = Entry(text, 2, j)
        /\ \A j \in ReadFrom(text, 1) : \E n \in DOMAIN rows : rows[n] = Entry(text, 2, j)
        /\ \A n \in DOMAIN rows : n > 1 => rows[n - 1].offset < rows[n].offset
    BY <2>2 DEF FoundFrom
  <2> HIDE DEF rows, starts, bad
  <2>7. \A j : Entry(text, 2, j).offset = j /\ Entry(text, 2, j).row = ParseLine(ReadLine(text, j), 2)
    BY DEF Entry
  <2>8. {rows[n].offset : n \in DOMAIN rows} = {i \in starts : \A j \in bad : i < j}
    <3>1. \A n \in DOMAIN rows : rows[n].offset \in ReadFrom(text, 1)
      BY <2>6, <2>7
    <3>2. \A j \in ReadFrom(text, 1) : \E n \in DOMAIN rows : rows[n].offset = j
      BY <2>6, <2>7
    <3>3. {rows[n].offset : n \in DOMAIN rows} = ReadFrom(text, 1)
      BY <3>1, <3>2
    <3> QED BY <2>4, <3>3
  <2>9. ASSUME NEW n \in DOMAIN rows
        PROVE  Len(rows[n].row) = 2 /\ RowAtOffset(text, rows[n].offset, 2) = rows[n].row
    <3>1. PICK j \in ReadFrom(text, 1) : rows[n] = Entry(text, 2, j)
      BY <2>6
    <3>2. j \in starts /\ j \in 1..Len(text) /\ j \notin bad
      <4>1. j \in starts /\ \A b \in bad : j < b
        BY <2>4
      <4>2. j \in 1..Len(text)
        BY <2>3, <4>1
      <4>3. ~(j < j)
        BY <4>2
      <4> QED BY <4>1, <4>2, <4>3
    <3>3. ReadLine(text, j) \in Seq(InLine(C)) /\ ~HasBadEscape(ReadLine(text, j))
      BY <2>1, <3>2, NextLineIs DEF starts, bad, BadStarts
    <3>4. Len(ParseLine(ReadLine(text, j), 2)) = 2
      <4> DEFINE t == ReadLine(text, j)
      <4>1. t \in Seq(InLine(C)) /\ ~HasBadEscape(t) /\ 2 \in Nat \ {0}
        BY <3>3
      <4> HIDE DEF t
      <4>2. Len(ParseLine(t, 2)) = 2
        BY <2>1, <4>1, ParsedIs
      <4> QED BY <4>2 DEF t
    <3>5. ~(j > Len(text))
      BY <2>1, <3>2
    <3>6. RowAtOffset(text, j, 2) = ParseLine(ReadLine(text, j), 2)
      BY <3>5 DEF RowAtOffset
    <3> QED BY <2>7, <3>1, <3>4, <3>6
  <2> QED BY <2>5, <2>6, <2>8, <2>9 DEF ScanFindsEveryLine, found, rows, starts, bad, Starts, BadStarts
<1> QED BY <1>1, TextIsTyped, PTL

-----------------------------------------------------------------------------
(* parse_canonical_positive_uint64.                                        *)

\* The characters ids are written with.
Digit == ToSet(Numerals)

LEMMA NumeralsTyped ==
  /\ \A i \in 1..10 : Numerals[i] \in Digit
  /\ Len(Numerals) = 10 /\ Numerals \in Seq(Digit)
  /\ "malformed" \notin Digit
BY DEF Numerals, Digit, ToSet

LEMMA DigitValue ==
  /\ DOMAIN DigitOf = Digit
  /\ \A char \in Digit : DigitOf[char] \in 0..9
<1>1. DOMAIN DigitOf = Digit /\ \A char \in Digit : DigitOf[char] = (CHOOSE n \in 1..10 : Numerals[n] = char) - 1
  BY DEF DigitOf, Digit
<1>2. \A char \in Digit : \E n \in 1..10 : Numerals[n] = char
  <2>1. DOMAIN Numerals = 1..10
    BY NumeralsTyped, LenProperties
  <2> QED BY <2>1 DEF Digit, ToSet
<1> QED BY <1>1, <1>2, SMTT(30)

IdStates == [value : 0..MaxId, refused : BOOLEAN]

IdStart == [value |-> 0, refused |-> FALSE]

\* What one step makes of a value that was not refused, and of one that was.
LEMMA IdStepIs ==
  ASSUME NEW st \in IdStates, NEW char
  PROVE  /\ IdStep(st, char) \in IdStates
         /\ st.refused \/ char \notin Digit => IdStep(st, char) = NoId
         /\ char \in Digit /\ ~st.refused =>
               LET next == st.value * 10 + DigitOf[char] IN
               IF next <= MaxId THEN ~IdStep(st, char).refused /\ IdStep(st, char).value = next
               ELSE IdStep(st, char) = NoId
<1>1. NoId \in IdStates
  BY MaxIdAssumption DEF NoId, IdStates
<1>2. st.value \in 0..MaxId /\ st.refused \in BOOLEAN
  BY DEF IdStates
<1>3. CASE st.refused \/ char \notin Digit
  <2>1. IdStep(st, char) = NoId
    BY <1>3, DigitValue DEF IdStep
  <2> QED BY <1>1, <1>3, <2>1
<1>4. CASE ~st.refused /\ char \in Digit
  <2> DEFINE d == DigitOf[char]
             v == st.value
             next == v * 10 + d
  <2>1. d \in 0..9 /\ v \in 0..MaxId /\ next \in Nat
    BY <1>2, <1>4, DigitValue, MaxIdAssumption
  <2>2. FitsAfter(v, d) <=> next <= MaxId
    <3> HIDE DEF d, v
    <3>1. (v <= (MaxId - d) \div 10) <=> (v * 10 <= MaxId - d)
      BY <2>1, MaxIdAssumption
    <3> QED BY <2>1, <3>1, MaxIdAssumption DEF FitsAfter
  <2>3. CASE next <= MaxId
    <3>1. next % (MaxId + 1) = next
      <4> HIDE DEF next
      <4> QED BY <2>1, <2>3, MaxIdAssumption
    <3>2. IdStep(st, char) = [st EXCEPT !.value = next % (MaxId + 1)]
      BY <1>4, <2>2, <2>3, DigitValue DEF IdStep
    <3> HIDE DEF next
    <3>3. [st EXCEPT !.value = next] \in IdStates
      BY <1>2, <2>1, <2>3, MaxIdAssumption DEF IdStates
    <3>4. [st EXCEPT !.value = next].value = next /\ ~[st EXCEPT !.value = next].refused
      BY <1>4 DEF IdStates
    <3> QED BY <1>4, <2>3, <3>1, <3>2, <3>3, <3>4 DEF next
  <2>4. CASE ~(next <= MaxId)
    <3>1. IdStep(st, char) = NoId
      BY <1>4, <2>2, <2>4, DigitValue DEF IdStep
    <3> QED BY <1>1, <1>4, <2>4, <3>1
  <2> QED BY <2>3, <2>4
<1> QED BY <1>2, <1>3, <1>4

IdRuns(f, word) ==
    /\ f \in [0..Len(word) -> IdStates] /\ f[0] = IdStart
    /\ \A i \in 1..Len(word) : f[i] = IdStep(f[i - 1], word[i])
    /\ ParseId(word) = IF word = <<>> \/ word[1] = "0" THEN 0 ELSE f[Len(word)].value

LEMMA ParseIdSteps ==
  ASSUME NEW A, NEW word \in Seq(A)
  PROVE  \E f : IdRuns(f, word)
<1> DEFINE N == Len(word)
           V == IdStates
           base == IdStart
           G == [p \in (1..N) \X V |-> IdStep(p[2], word[p[1]])]
<1>1. N \in Nat /\ base \in V
  BY LenProperties, MaxIdAssumption DEF IdStart, IdStates
<1>2. \A i \in 1..N : \A v \in V : G[<<i, v>>] = IdStep(v, word[i])
  OBVIOUS
<1>3. StaysIn(G, N, V)
  <2> SUFFICES ASSUME NEW i \in 1..N, NEW v \in V PROVE G[<<i, v>>] \in V
    BY DEF StaysIn
  <2>1. IdStep(v, word[i]) \in V
    BY IdStepIs
  <2> QED BY <1>2, <2>1
<1> HIDE DEF G, base
<1>4. PICK g : Recurs(g, N, V, base, G)
  BY <1>1, <1>3, Recursion
<1>5. g \in [0..N -> V] /\ g[0] = base /\ \A i \in 1..N : g[i] = IdStep(g[i - 1], word[i])
  <2>1. g \in [0..N -> V] /\ g[0] = base /\ \A i \in 1..N : g[i] = G[<<i, g[i - 1]>>]
    BY <1>4 DEF Recurs
  <2>2. \A i \in 1..N : g[i - 1] \in V
    BY <1>1, <2>1
  <2> QED BY <1>2, <2>1, <2>2
<1> DEFINE Is(f) == f = [i \in 0..Len(word) |->
                          IF i = 0 THEN [value |-> 0, refused |-> FALSE] ELSE IdStep(f[i - 1], word[i])]
           found == CHOOSE f : Is(f)
<1>6. Is(g)
  <2>1. \A i \in 0..N : g[i] = IF i = 0 THEN base ELSE IdStep(g[i - 1], word[i])
    <3> TAKE i \in 0..N
    <3>1. CASE i = 0
      BY <1>5, <3>1
    <3>2. CASE i # 0
      <4>1. i \in 1..N
        BY <1>1, <3>2
      <4> QED BY <1>5, <3>2, <4>1
    <3> QED BY <3>1, <3>2
  <2> QED BY <1>5, <2>1 DEF base, IdStart
<1>7. Is(found)
  <2> HIDE DEF Is
  <2> QED BY <1>6
<1>8. ParseId(word) = IF word = <<>> \/ word[1] = "0" THEN 0 ELSE found[N].value
  BY DEF ParseId
<1> HIDE DEF found
<1>9. PICK h : h = found /\ h[0] = base /\ \A i \in 1..N : h[i] = IdStep(h[i - 1], word[i])
  <2>1. 0 \in 0..N /\ \A i \in 1..N : i \in 0..N /\ i # 0
    BY <1>1
  <2> QED BY <1>7, <2>1 DEF base, IdStart
<1>10. \A i \in 0..N : h[i] = g[i]
  <2>1. \A i \in 1..N : h[i - 1] = g[i - 1] => h[i] = g[i]
    BY <1>5, <1>9
  <2>2. h[0] = g[0]
    BY <1>5, <1>9
  <2>3. N \in Nat
    BY <1>1
  <2> HIDE DEF N
  <2>4. SameSteps(h, g, N)
    BY <2>1, <2>2 DEF SameSteps
  <2>5. SameUpTo(h, g, N)
    BY <2>3, <2>4, SameRecursion
  <2> QED BY <2>5 DEF SameUpTo
<1>11. ParseId(word) = IF word = <<>> \/ word[1] = "0" THEN 0 ELSE g[N].value
  <2>1. N \in 0..N
    BY <1>1
  <2> QED BY <1>8, <1>9, <1>10, <2>1
<1> QED BY <1>5, <1>11 DEF IdRuns, base

Spells(f, word) ==
    /\ f \in [0..Len(word) -> Nat] /\ f[0] = 0
    /\ \A i \in 1..Len(word) : f[i] = f[i - 1] * 10 + DigitOf[word[i]]
    /\ Spelled(word) = f[Len(word)]

LEMMA SpelledSteps ==
  ASSUME NEW word \in Seq(Digit)
  PROVE  \E f : Spells(f, word)
<1> DEFINE N == Len(word)
           V == Nat
           base == 0
           G == [p \in (1..N) \X V |-> p[2] * 10 + DigitOf[word[p[1]]]]
<1>1. N \in Nat /\ base \in V /\ \A i \in 1..N : DigitOf[word[i]] \in 0..9
  BY LenProperties, ElementOfSeq, DigitValue
<1>2. \A i \in 1..N : \A v \in V : G[<<i, v>>] = v * 10 + DigitOf[word[i]]
  OBVIOUS
<1>3. StaysIn(G, N, V)
  <2> SUFFICES ASSUME NEW i \in 1..N, NEW v \in V PROVE G[<<i, v>>] \in V
    BY DEF StaysIn
  <2>1. v * 10 + DigitOf[word[i]] \in V
    BY <1>1
  <2> QED BY <1>2, <2>1
<1> HIDE DEF G, base, V
<1>4. PICK g : Recurs(g, N, V, base, G)
  BY <1>1, <1>3, Recursion
<1>5. g \in [0..N -> V] /\ g[0] = base /\ \A i \in 1..N : g[i] = g[i - 1] * 10 + DigitOf[word[i]]
  <2>1. g \in [0..N -> V] /\ g[0] = base /\ \A i \in 1..N : g[i] = G[<<i, g[i - 1]>>]
    BY <1>4 DEF Recurs
  <2>2. \A i \in 1..N : g[i - 1] \in V
    BY <1>1, <2>1
  <2> QED BY <1>2, <2>1, <2>2
<1> DEFINE Is(f) == f = [i \in 0..Len(word) |-> IF i = 0 THEN 0 ELSE f[i - 1] * 10 + DigitOf[word[i]]]
           found == CHOOSE f : Is(f)
<1>6. Is(g)
  <2>1. \A i \in 0..N : g[i] = IF i = 0 THEN base ELSE g[i - 1] * 10 + DigitOf[word[i]]
    <3> TAKE i \in 0..N
    <3>1. CASE i = 0
      BY <1>5, <3>1
    <3>2. CASE i # 0
      <4>1. i \in 1..N
        BY <1>1, <3>2
      <4> QED BY <1>5, <3>2, <4>1
    <3> QED BY <3>1, <3>2
  <2> QED BY <1>5, <2>1 DEF base
<1>7. Is(found)
  <2> HIDE DEF Is
  <2> QED BY <1>6
<1>8. Spelled(word) = found[N]
  BY DEF Spelled
<1> HIDE DEF found
<1>9. PICK h : h = found /\ h[0] = base /\ \A i \in 1..N : h[i] = h[i - 1] * 10 + DigitOf[word[i]]
  <2>1. 0 \in 0..N /\ \A i \in 1..N : i \in 0..N /\ i # 0
    BY <1>1
  <2> QED BY <1>7, <2>1 DEF base
<1>10. \A i \in 0..N : h[i] = g[i]
  <2>1. \A i \in 1..N : h[i - 1] = g[i - 1] => h[i] = g[i]
    BY <1>5, <1>9
  <2>2. h[0] = g[0]
    BY <1>5, <1>9
  <2>3. N \in Nat
    BY <1>1
  <2> HIDE DEF N
  <2>4. SameSteps(h, g, N)
    BY <2>1, <2>2 DEF SameSteps
  <2>5. SameUpTo(h, g, N)
    BY <2>3, <2>4, SameRecursion
  <2> QED BY <2>5 DEF SameUpTo
<1>11. Spelled(word) = g[N]
  <2>1. N \in 0..N
    BY <1>1
  <2> QED BY <1>8, <1>9, <1>10, <2>1
<1> QED BY <1>5, <1>11 DEF Spells, base, V

\* A text that is not a number is refused, and stays refused.
LEMMA RefusedStays ==
  ASSUME NEW f, NEW word, IdRuns(f, word), Len(word) \in Nat,
         NEW k \in 1..Len(word), f[k] = NoId
  PROVE  f[Len(word)] = NoId
<1> DEFINE N == Len(word)
           T == {i \in 0..N : k <= i => f[i] = NoId}
<1>1. 0 \in T
  OBVIOUS
<1>2. ASSUME NEW i \in 1..N, i - 1 \in T PROVE i \in T
  <2>1. CASE k = i
    BY <2>1
  <2>2. CASE k # i
    <3> SUFFICES ASSUME k <= i PROVE f[i] = NoId
      OBVIOUS
    <3>1. f[i - 1] = NoId
      BY <1>2, <2>2
    <3>2. f[i - 1] \in IdStates /\ f[i] = IdStep(f[i - 1], word[i])
      <4>1. i - 1 \in 0..N
        OBVIOUS
      <4> QED BY <4>1 DEF IdRuns
    <3>3. f[i - 1].refused
      BY <3>1 DEF NoId
    <3> QED BY <3>2, <3>3, IdStepIs
  <2> QED BY <2>1, <2>2
<1>3. N \in Nat
  OBVIOUS
<1> HIDE DEF T, N
<1>4. \A i \in 0..N : i \in T
  BY <1>1, <1>2, <1>3, UpTo
<1>5. N \in T
  BY <1>3, <1>4
<1> QED BY <1>5 DEF T, N

\* The value so far is the number spelled so far, or that number is too large.
LEMMA ValueIsSpelled ==
  ASSUME NEW word \in Seq(Digit), NEW f, IdRuns(f, word), NEW p, Spells(p, word)
  PROVE  IF p[Len(word)] <= MaxId THEN f[Len(word)].value = p[Len(word)] ELSE f[Len(word)] = NoId
<1> DEFINE N == Len(word)
           T == {i \in 0..N : IF p[i] <= MaxId THEN ~f[i].refused /\ f[i].value = p[i]
                                               ELSE f[i] = NoId}
<1>1. N \in Nat /\ \A i \in 1..N : word[i] \in Digit
  BY LenProperties, ElementOfSeq
<1>2. /\ f[0] = IdStart /\ \A i \in 0..N : f[i] \in IdStates
      /\ \A i \in 1..N : f[i] = IdStep(f[i - 1], word[i])
  BY DEF IdRuns
<1>3. /\ p[0] = 0 /\ \A i \in 0..N : p[i] \in Nat
      /\ \A i \in 1..N : p[i] = p[i - 1] * 10 + DigitOf[word[i]]
  BY DEF Spells
<1>4. 0 \in T
  BY <1>1, <1>2, <1>3, MaxIdAssumption DEF IdStart
<1>5. ASSUME NEW i \in 1..N, i - 1 \in T PROVE i \in T
  <2> DEFINE st == f[i - 1]
             c == word[i]
             next == p[i - 1] * 10 + DigitOf[c]
  <2>1. st \in IdStates /\ f[i] = IdStep(st, c) /\ c \in Digit /\ i \in 0..N
    <3>1. i - 1 \in 0..N /\ i \in 0..N
      BY <1>1
    <3> QED BY <1>1, <1>2, <3>1
  <2>2. /\ p[i] = next /\ p[i - 1] \in Nat /\ DigitOf[c] \in 0..9
        /\ IF p[i - 1] <= MaxId THEN ~st.refused /\ st.value = p[i - 1] ELSE st = NoId
    <3>1. i - 1 \in 0..N
      BY <1>1
    <3> QED BY <1>3, <1>5, <2>1, <3>1, DigitValue
  <2> HIDE DEF T
  <2>3. CASE p[i - 1] <= MaxId
    <3> HIDE DEF st, c
    <3>1. ~st.refused /\ st.value = p[i - 1]
      BY <2>2, <2>3
    <3>2. IF st.value * 10 + DigitOf[c] <= MaxId
          THEN ~IdStep(st, c).refused /\ IdStep(st, c).value = st.value * 10 + DigitOf[c]
          ELSE IdStep(st, c) = NoId
      BY <2>1, <3>1, IdStepIs
    <3>3. IF p[i] <= MaxId THEN ~f[i].refused /\ f[i].value = p[i] ELSE f[i] = NoId
      BY <2>1, <2>2, <3>1, <3>2
    <3> QED BY <2>1, <3>3 DEF T
  <2>4. CASE ~(p[i - 1] <= MaxId)
    <3> HIDE DEF st, c
    <3>1. st = NoId /\ st.refused
      BY <2>2, <2>4 DEF NoId
    <3>2. f[i] = NoId
      BY <2>1, <3>1, IdStepIs
    <3>3. ~(p[i] <= MaxId)
      <4>1. ASSUME NEW front \in Nat, NEW digit \in 0..9, ~(front <= MaxId)
            PROVE  ~(front * 10 + digit <= MaxId)
        BY <4>1, MaxIdAssumption
      <4>2. p[i - 1] \in Nat /\ DigitOf[c] \in 0..9 /\ p[i] = p[i - 1] * 10 + DigitOf[c]
        BY <2>2
      <4> HIDE DEF next
      <4> QED BY <2>4, <4>1, <4>2
    <3> QED BY <2>1, <3>2, <3>3 DEF T
  <2> QED BY <2>3, <2>4
<1> HIDE DEF T, N
<1>6. \A i \in 0..N : i \in T
  BY <1>1, <1>4, <1>5, UpTo
<1>7. N \in T
  BY <1>1, <1>6
<1> QED BY <1>7 DEF T, N

\* The text of an id is the number it spells, if that is one from 1 to UINT64_MAX without
\* leading zeros, and is refused otherwise (parse_canonical_positive_uint64).
THEOREM IdsAreTheirNumbers == TextSpec => []IdsAreExact
<1>1. TextTyped => IdsAreExact
  <2> SUFFICES ASSUME TextTyped, reader = "id"
               PROVE  ParseId(text) =
                        IF /\ text # <<>> /\ ToSet(text) \subseteq DOMAIN DigitOf /\ text[1] # "0"
                           /\ Spelled(text) <= MaxId
                        THEN Spelled(text) ELSE 0
    BY DEF IdsAreExact
  <2> DEFINE A == Alphabet["id"]
  <2>1. text \in Seq(A)
    BY DEF TextTyped
  <2> HIDE DEF A
  <2>2. PICK f : IdRuns(f, text)
    BY <2>1, ParseIdSteps
  <2>3. Len(text) \in Nat /\ DOMAIN text = 1..Len(text) /\ (text # <<>> => Len(text) # 0)
    BY <2>1, LenProperties, EmptySeq
  <2>4. ParseId(text) = IF text = <<>> \/ text[1] = "0" THEN 0 ELSE f[Len(text)].value
    BY <2>2 DEF IdRuns
  <2>5. NoId.value = 0
    BY DEF NoId
  <2>6. CASE text = <<>> \/ text[1] = "0"
    BY <2>4, <2>6
  <2>7. CASE ~(text = <<>> \/ text[1] = "0") /\ ~(ToSet(text) \subseteq Digit)
    <3>1. PICK k \in 1..Len(text) : text[k] \notin Digit
      BY <2>3, <2>7 DEF ToSet
    <3>2. f[k - 1] \in IdStates /\ f[k] = IdStep(f[k - 1], text[k])
      <4>1. k - 1 \in 0..Len(text)
        BY <2>3
      <4> QED BY <2>2, <4>1 DEF IdRuns
    <3>3. f[k] = NoId
      BY <3>1, <3>2, IdStepIs
    <3>4. f[Len(text)] = NoId
      BY <2>2, <2>3, <3>3, RefusedStays
    <3> QED BY <2>4, <2>5, <2>7, <3>4, DigitValue
  <2>8. CASE ~(text = <<>> \/ text[1] = "0") /\ ToSet(text) \subseteq Digit
    <3>1. text \in Seq(Digit)
      <4>1. \A i \in 1..Len(text) : text[i] \in Digit
        BY <2>3, <2>8 DEF ToSet
      <4>2. text = [i \in 1..Len(text) |-> text[i]]
        BY <2>1, LenProperties
      <4>3. text \in [1..Len(text) -> Digit]
        BY <4>1, <4>2
      <4> QED BY <2>3, <4>3, FunctionIsSeq
    <3>2. PICK p : Spells(p, text)
      BY <3>1, SpelledSteps
    <3>3. IF p[Len(text)] <= MaxId THEN f[Len(text)].value = p[Len(text)] ELSE f[Len(text)] = NoId
      BY <2>2, <3>1, <3>2, ValueIsSpelled
    <3>4. Spelled(text) = p[Len(text)]
      BY <3>2 DEF Spells
    <3> QED BY <2>4, <2>5, <2>8, <3>3, <3>4, DigitValue
  <2> QED BY <2>6, <2>7, <2>8
<1> QED BY <1>1, TextIsTyped, PTL

-----------------------------------------------------------------------------
(* The schema loader: what a line names, and where.                        *)

LEMMA SchemaReads ==
  \A file, i : /\ S!Codec!ReadLine(file, i) = ReadLine(file, i)
               /\ S!Codec!LineEnd(file, i) = LineEnd(file, i)
               /\ S!Codec!Newline = Newline
<1>1. \A file, i : S!Codec!LineEnd(file, i) = LineEnd(file, i)
  BY DEF S!Codec!LineEnd, LineEnd, S!Codec!Newline, Newline
<1>2. \A line : S!Codec!WithoutReturn(line) = WithoutReturn(line)
  BY DEF S!Codec!WithoutReturn, WithoutReturn, S!Codec!Return, Return,
         S!Codec!Last, Last, S!Codec!Front, Front
<1> QED BY <1>1, <1>2 DEF S!Codec!ReadLine, ReadLine, S!Codec!Newline, Newline

\* A line is blank, or all outside of two places in it is.
Blank(line) == \A k \in 1..Len(line) : line[k] \in SchemaSpaces

TrimmedTo(line, a, b) ==
    /\ a \in 1..Len(line) /\ b \in a..Len(line)
    /\ line[a] \notin SchemaSpaces /\ line[b] \notin SchemaSpaces
    /\ \A k \in 1..Len(line) : k < a \/ b < k => line[k] \in SchemaSpaces

LEMMA TrimIs ==
  ASSUME NEW C, NEW line \in Seq(C)
  PROVE  IF Blank(line) THEN S!Trim(line) = <<>>
         ELSE \E a, b : TrimmedTo(line, a, b) /\ S!Trim(line) = SubSeq(line, a, b)
<1> DEFINE N == Len(line)
           kept == {i \in DOMAIN line : line[i] \notin SchemaSpaces}
<1>1. N \in Nat /\ DOMAIN line = 1..N
  BY LenProperties
<1>2. CASE Blank(line)
  <2>1. kept = {}
    BY <1>1, <1>2 DEF Blank
  <2> QED BY <1>2, <2>1 DEF S!Trim
<1>3. CASE ~Blank(line)
  <2>1. kept # {} /\ kept \subseteq 1..N
    BY <1>1, <1>3 DEF Blank
  <2>2. kept \in SUBSET Nat /\ kept \in SUBSET (0..N)
    BY <1>1, <2>1
  <2> DEFINE a == CHOOSE i \in kept : \A j \in kept : i <= j
             b == CHOOSE i \in kept : \A j \in kept : i >= j
  <2>3. a \in kept /\ \A j \in kept : a <= j
    <3> HIDE DEF kept
    <3>1. \E m \in kept : \A j \in kept : m <= j
      BY <2>1, <2>2, LeastExists
    <3> QED BY <3>1
  <2>4. b \in kept /\ \A j \in kept : b >= j
    <3> HIDE DEF kept, N
    <3>1. \E m \in kept : \A j \in kept : j <= m
      BY <1>1, <2>1, <2>2, LargestExists
    <3>2. \E m \in kept : \A j \in kept : m >= j
      <4>1. PICK m \in kept : \A j \in kept : j <= m
        BY <3>1
      <4>2. \A j \in kept : m >= j
        BY <2>2, <4>1
      <4> QED BY <4>2
    <3> QED BY <3>2
  <2>5. S!Trim(line) = SubSeq(line, a, b)
    BY <2>1 DEF S!Trim
  <2> HIDE DEF a, b
  <2>6. TrimmedTo(line, a, b)
    BY <1>1, <2>1, <2>3, <2>4 DEF TrimmedTo
  <2> QED BY <1>3, <2>5, <2>6
<1> QED BY <1>2, <1>3

\* The name on the line at i stands from a to b.
NameIn(f, i, a, b) ==
    /\ a \in i..(LineEnd(f, i) - 1) /\ b \in a..(LineEnd(f, i) - 1)
    /\ f[a] \notin SchemaSpaces /\ f[b] \notin SchemaSpaces
    /\ \A k \in i..(LineEnd(f, i) - 1) : k < a \/ b < k => f[k] \in SchemaSpaces

NameOf(f, i) == S!Trim(ReadLine(f, i))

\* What read_line has taken of the line at i.
TakenAt(f, i, line, C) ==
    /\ line \in Seq(C) /\ Len(line) <= LineEnd(f, i) - i
    /\ \A k \in 1..Len(line) : line[k] = f[i + k - 1]
    /\ \A k \in (i + Len(line))..(LineEnd(f, i) - 1) : f[k] \in SchemaSpaces

LEMMA LineTaken ==
  ASSUME NEW C, NEW f \in Seq(C), NEW i \in 1..Len(f)
  PROVE  /\ LineEnd(f, i) \in i..(Len(f) + 1)
         /\ TakenAt(f, i, ReadLine(f, i), C)
<1> DEFINE N == Len(f)
           e == LineEnd(f, i)
           body == SubSeq(f, i, e - 1)
           m == Len(body)
<1>1. N \in Nat /\ i \in 1..N
  BY LenProperties
<1>2. e \in i..(N + 1)
  <2>1. i \in Nat /\ i <= N + 1
    BY <1>1
  <2>2. EndsLine(f, i, e)
    BY <2>1, LineEndIs
  <2> QED BY <2>2 DEF EndsLine
<1> HIDE DEF e
<1>3. i \in Nat /\ e - 1 \in Nat /\ 1 <= i /\ e - 1 <= N
  BY <1>1, <1>2
<1>4. /\ body \in Seq(C) /\ m = (IF i <= e - 1 THEN (e - 1) - i + 1 ELSE 0)
      /\ \A k \in 1..((e - 1) - i + 1) : body[k] = f[i + k - 1]
  BY <1>3, SubSeqTyped
<1>5. m = e - i /\ m \in Nat
  <2> HIDE DEF m
  <2> QED BY <1>1, <1>2, <1>4
<1>6. (e - 1) - i + 1 = e - i
  BY <1>1, <1>2
<1> HIDE DEF body
<1>7. ReadLine(f, i) = WithoutReturn(body)
  BY DEF ReadLine, body, e
<1>8. CASE ~(body # <<>> /\ Last(body) = Return)
  <2>1. ReadLine(f, i) = body
    BY <1>7, <1>8 DEF WithoutReturn
  <2>2. \A k \in (i + m)..(e - 1) : FALSE
    <3> HIDE DEF m
    <3> QED BY <1>1, <1>2, <1>5
  <2> QED BY <1>2, <1>4, <1>5, <1>6, <2>1, <2>2 DEF TakenAt, e
<1>9. CASE body # <<>> /\ Last(body) = Return
  <2> DEFINE line == Front(body)
  <2>1. m > 0
    BY <1>4, <1>5, <1>9, EmptySeq
  <2>2. line \in Seq(C) /\ Len(line) = m - 1 /\ \A k \in 1..(m - 1) : line[k] = body[k]
    BY <1>4, <1>9, SubSeqTyped DEF Front
  <2>3. body[m] = Return
    BY <1>9 DEF Last
  <2> HIDE DEF m, line
  <2>4. i + m - 1 = e - 1 /\ m \in 1..(e - i) /\ \A k \in 1..(m - 1) : k \in 1..(e - i)
    BY <1>1, <1>2, <1>5, <2>1
  <2>5. f[e - 1] \in SchemaSpaces
    <3>1. body[m] = f[i + m - 1]
      BY <1>4, <1>6, <2>4
    <3> QED BY <2>3, <2>4, <3>1, SchemaSpacesAssumption DEF Return
  <2>6. \A k \in (i + (m - 1))..(e - 1) : f[k] \in SchemaSpaces
    <3>1. \A k \in (i + (m - 1))..(e - 1) : k = e - 1
      BY <1>1, <1>2, <1>5
    <3> QED BY <2>5, <3>1
  <2>7. m - 1 <= e - i /\ \A k \in 1..(m - 1) : line[k] = f[i + k - 1]
    <3>1. m - 1 <= e - i
      BY <1>1, <1>2, <1>5
    <3> QED BY <1>4, <1>6, <2>2, <2>4, <3>1
  <2>8. ReadLine(f, i) = line
    BY <1>7, <1>9 DEF WithoutReturn, line
  <2> QED BY <1>2, <2>2, <2>6, <2>7, <2>8 DEF TakenAt, e
<1> QED BY <1>8, <1>9

LEMMA NameUnique ==
  ASSUME NEW C, NEW f \in Seq(C), NEW i \in 1..Len(f), NEW a, NEW b, NEW c, NEW d,
         NameIn(f, i, a, b), NameIn(f, i, c, d)
  PROVE  a = c /\ b = d
<1> DEFINE e == LineEnd(f, i)
<1>1. e \in Int /\ i \in Int
  BY LineTaken
<1> HIDE DEF e
<1>2. /\ a \in i..(e - 1) /\ b \in a..(e - 1) /\ c \in i..(e - 1) /\ d \in c..(e - 1)
      /\ f[a] \notin SchemaSpaces /\ f[b] \notin SchemaSpaces
      /\ f[c] \notin SchemaSpaces /\ f[d] \notin SchemaSpaces
      /\ \A k \in i..(e - 1) : k < a \/ b < k => f[k] \in SchemaSpaces
      /\ \A k \in i..(e - 1) : k < c \/ d < k => f[k] \in SchemaSpaces
  BY DEF NameIn, e
<1>3. b \in i..(e - 1) /\ d \in i..(e - 1)
  BY <1>1, <1>2
<1>4. ~(a < c) /\ ~(c < a) /\ ~(b < d) /\ ~(d < b)
  BY <1>2, <1>3
<1> QED BY <1>1, <1>2, <1>3, <1>4

\* A stretch of a line is a stretch of the file.
SamePartAt(C, f, line, i, a, b) ==
    /\ SubSeq(line, a, b) = SubSeq(f, i + a - 1, i + b - 1)
    /\ SubSeq(line, a, b) \in Seq(C) /\ SubSeq(line, a, b) # <<>>

LEMMA SamePart ==
  ASSUME NEW C, NEW f \in Seq(C), NEW line \in Seq(C), NEW i \in Nat \ {0},
         \A k \in 1..Len(line) : line[k] = f[i + k - 1],
         NEW a \in 1..Len(line), NEW b \in a..Len(line), i + b - 1 <= Len(f)
  PROVE  SamePartAt(C, f, line, i, a, b)
<1> DEFINE N == Len(f)
           M == Len(line)
           c == i + a - 1
           d == i + b - 1
           x == SubSeq(line, a, b)
           y == SubSeq(f, c, d)
           n == b - a + 1
<1>1. N \in Nat /\ M \in Nat
  BY LenProperties
<1>2. /\ a \in Nat /\ b \in Nat /\ 1 <= a /\ a <= b /\ b <= M
      /\ c \in Nat /\ d \in Nat /\ 1 <= c /\ c <= d /\ d <= N
      /\ d - c + 1 = n /\ n \in Nat /\ n > 0
  <2>1. a \in 1..M /\ b \in a..M /\ i + b - 1 <= N
    OBVIOUS
  <2> HIDE DEF N, M
  <2> QED BY <1>1, <2>1
<1>3. x \in Seq(C) /\ Len(x) = n /\ \A j \in 1..n : x[j] = line[a + j - 1]
  BY <1>2, SubSeqTyped
<1>4. y \in Seq(C) /\ Len(y) = n /\ \A j \in 1..n : y[j] = f[c + j - 1]
  <2> HIDE DEF c, d, n
  <2> QED BY <1>2, SubSeqTyped
<1>5. \A j \in 1..n : x[j] = y[j]
  <2> SUFFICES ASSUME NEW j \in 1..n PROVE x[j] = y[j]
    OBVIOUS
  <2>1. a + j - 1 \in 1..M /\ i + (a + j - 1) - 1 = c + j - 1
    <3> HIDE DEF M
    <3> QED BY <1>1, <1>2
  <2>2. line[a + j - 1] = f[i + (a + j - 1) - 1]
    BY <2>1
  <2> HIDE DEF x, y, c, n
  <2> QED BY <1>3, <1>4, <2>1, <2>2
<1> HIDE DEF x, y, n
<1>6. x = y
  BY <1>3, <1>4, <1>5, SeqEqual
<1>7. x # <<>>
  BY <1>2, <1>3
<1> QED BY <1>3, <1>6, <1>7 DEF x, y, SamePartAt

LEMMA NameOfLine ==
  ASSUME NEW C, NEW f \in Seq(C), NEW i \in 1..Len(f)
  PROVE  /\ NameOf(f, i) \in Seq(C)
         /\ NameOf(f, i) # <<>> => \E a, b : NameIn(f, i, a, b)
         /\ \A a, b : NameIn(f, i, a, b) =>
               NameOf(f, i) = SubSeq(f, a, b) /\ NameOf(f, i) # <<>>
<1> DEFINE N == Len(f)
           e == LineEnd(f, i)
           line == ReadLine(f, i)
           m == Len(line)
<1>1. N \in Nat /\ i \in 1..N /\ e \in i..(N + 1) /\ TakenAt(f, i, line, C)
  BY LineTaken, LenProperties
<1>2. /\ line \in Seq(C) /\ m <= e - i /\ m \in Nat
      /\ \A k \in 1..m : line[k] = f[i + k - 1]
      /\ \A k \in (i + m)..(e - 1) : f[k] \in SchemaSpaces
  BY <1>1, LenProperties DEF TakenAt
<1> HIDE DEF e, line
<1>3. CASE Blank(line)
  <2>1. NameOf(f, i) = <<>>
    BY <1>2, <1>3, TrimIs DEF NameOf, line
  <2>2. ASSUME NEW a, NEW b, NameIn(f, i, a, b) PROVE FALSE
    <3>1. a \in i..(e - 1) /\ f[a] \notin SchemaSpaces
      BY <2>2 DEF NameIn, e
    <3> DEFINE k == a - i + 1
    <3>2. a \in Int /\ ~(a \in (i + m)..(e - 1))
      BY <1>2, <3>1
    <3>3. k \in 1..m /\ i + k - 1 = a
      <4> HIDE DEF m
      <4> QED BY <1>1, <1>2, <3>1, <3>2
    <3> QED BY <1>2, <1>3, <3>1, <3>3 DEF Blank
  <2> QED BY <2>1, <2>2
<1>4. CASE ~Blank(line)
  <2>1. PICK a, b : TrimmedTo(line, a, b) /\ NameOf(f, i) = SubSeq(line, a, b)
    BY <1>2, <1>4, TrimIs DEF NameOf, line
  <2> DEFINE c == i + a - 1
             d == i + b - 1
  <2> HIDE DEF N
  <2>2. /\ a \in 1..m /\ b \in a..m /\ line[a] \notin SchemaSpaces /\ line[b] \notin SchemaSpaces
        /\ \A k \in 1..m : k < a \/ b < k => line[k] \in SchemaSpaces
    BY <2>1 DEF TrimmedTo
  <2> HIDE DEF m
  <2>3. b \in 1..m /\ i \in Nat \ {0} /\ i + b - 1 <= N
    BY <1>1, <1>2, <2>2
  <2>4. NameOf(f, i) = SubSeq(f, c, d) /\ NameOf(f, i) \in Seq(C) /\ NameOf(f, i) # <<>>
    <3>1. /\ a \in 1..Len(line) /\ b \in a..Len(line) /\ i + b - 1 <= Len(f)
          /\ \A k \in 1..Len(line) : line[k] = f[i + k - 1]
          /\ line \in Seq(C) /\ i \in Nat \ {0}
      BY <1>2, <2>2, <2>3 DEF m, N
    <3>2. SamePartAt(C, f, line, i, a, b)
      BY <3>1, SamePart
    <3> QED BY <2>1, <3>2 DEF SamePartAt
  <2>5. NameIn(f, i, c, d)
    <3>1. c \in i..(e - 1) /\ d \in c..(e - 1)
      BY <1>1, <1>2, <2>2
    <3>2. f[c] \notin SchemaSpaces /\ f[d] \notin SchemaSpaces
      BY <1>2, <2>2, <2>3
    <3>3. ASSUME NEW k \in i..(e - 1), k < c \/ d < k PROVE f[k] \in SchemaSpaces
      <4> DEFINE j == k - i + 1
      <4>1. CASE k \in (i + m)..(e - 1)
        BY <1>2, <4>1
      <4>2. CASE ~(k \in (i + m)..(e - 1))
        <5>1. j \in 1..m /\ i + j - 1 = k /\ (j < a \/ b < j)
          BY <1>1, <1>2, <2>2, <3>3, <4>2
        <5> HIDE DEF j
        <5>2. line[j] \in SchemaSpaces /\ line[j] = f[k]
          BY <1>2, <2>2, <5>1
        <5> QED BY <5>2
      <4> QED BY <4>1, <4>2
    <3> QED BY <3>1, <3>2, <3>3 DEF NameIn, e
  <2> HIDE DEF c, d
  <2> QED BY <2>4, <2>5, NameUnique
<1> QED BY <1>3, <1>4

\* The stretches are the lines that are not empty, and the names are those on them.
LEMMA StretchIs ==
  ASSUME NEW C, NEW f \in Seq(C), NEW a \in 1..Len(f), NEW b \in 1..Len(f)
  PROVE  <<a, b>> \in S!Stretches(f) <=> a \in Starts(f) /\ a <= b /\ LineEnd(f, a) = b + 1
<1> DEFINE N == Len(f)
<1>1. N \in Nat /\ DOMAIN f = 1..N /\ a \in 1..N /\ b \in 1..N
  BY LenProperties
<1>2. <<a, b>> \in S!Stretches(f) <=>
        /\ a <= b /\ \A k \in a..b : f[k] # Newline
        /\ a = 1 \/ f[a - 1] = Newline
        /\ b = N \/ f[b + 1] = Newline
  BY SchemaReads DEF S!Stretches
<1>3. a \in Starts(f) <=> a = 1 \/ f[a - 1] = Newline
  BY <1>1 DEF Starts
<1> HIDE DEF N
<1>4. a \in Nat /\ a <= N + 1 /\ b + 1 - 1 = b
  BY <1>1
<1>5. LineEnd(f, a) = b + 1 <=> EndsLine(f, a, b + 1)
  BY <1>4, LineEndIs DEF N
<1> DEFINE Whole == /\ \A k \in a..b : f[k] # Newline
                    /\ b = N \/ f[b + 1] = Newline
<1>6. ASSUME a <= b
      PROVE  EndsLine(f, a, b + 1) <=> Whole
  <2>1. b + 1 \in a..(N + 1) /\ (b + 1 <= N <=> b # N)
    BY <1>1, <1>6
  <2>2. EndsLine(f, a, b + 1) <=>
          /\ b + 1 \in a..(N + 1) /\ (b + 1 <= N => f[b + 1] = Newline)
          /\ \A k \in a..b : f[k] # Newline
    BY <1>4 DEF EndsLine, N
  <2> QED BY <2>1, <2>2
<1>7. <<a, b>> \in S!Stretches(f) <=>
        a <= b /\ Whole /\ (a = 1 \/ f[a - 1] = Newline)
  BY <1>2
<1> HIDE DEF Whole
<1> QED BY <1>3, <1>5, <1>6, <1>7

LEMMA NamePlacesAre ==
  ASSUME NEW C, NEW f \in Seq(C)
  PROVE  \A p : p \in S!NamePlaces(f) <=>
            /\ p \in (1..Len(f)) \X (1..Len(f))
            /\ \E i \in Starts(f) : NameIn(f, i, p[1], p[2])
<1> DEFINE N == Len(f)
<1>1. N \in Nat /\ Starts(f) \subseteq 1..N
  BY LenProperties, StartsTyped
<1> SUFFICES ASSUME NEW a \in 1..N, NEW b \in 1..N
             PROVE  <<a, b>> \in S!NamePlaces(f) <=> \E i \in Starts(f) : NameIn(f, i, a, b)
  BY DEF S!NamePlaces
<1>2. <<a, b>> \in S!NamePlaces(f) <=>
        /\ a <= b /\ f[a] \notin SchemaSpaces /\ f[b] \notin SchemaSpaces
        /\ \E s \in S!Stretches(f) :
              /\ s[1] <= a /\ b <= s[2]
              /\ \A k \in (s[1]..s[2]) \ (a..b) : f[k] \in SchemaSpaces
  BY DEF S!NamePlaces
<1>3. \A s \in S!Stretches(f) : \E i \in 1..N, j \in 1..N : s = <<i, j>>
  BY DEF S!Stretches
<1> HIDE DEF N
<1>4. ASSUME NEW i \in 1..N, NEW j \in 1..N, <<i, j>> \in S!Stretches(f)
      PROVE  (/\ a <= b /\ f[a] \notin SchemaSpaces /\ f[b] \notin SchemaSpaces
              /\ i <= a /\ b <= j /\ \A k \in (i..j) \ (a..b) : f[k] \in SchemaSpaces)
             <=> NameIn(f, i, a, b)
  <2>1. LineEnd(f, i) = j + 1 /\ i <= j
    BY <1>4, StretchIs DEF N
  <2>2. LineEnd(f, i) - 1 = j
    BY <1>1, <2>1
  <2>3. NameIn(f, i, a, b) <=>
          /\ a \in i..j /\ b \in a..j
          /\ f[a] \notin SchemaSpaces /\ f[b] \notin SchemaSpaces
          /\ \A k \in i..j : k < a \/ b < k => f[k] \in SchemaSpaces
    BY <2>2 DEF NameIn
  <2>4. a \in i..j /\ b \in a..j <=> a <= b /\ i <= a /\ b <= j
    BY <1>1
  <2>5. \A k \in i..j : k < a \/ b < k <=> k \notin a..b
    BY <1>1
  <2> QED BY <2>3, <2>4, <2>5
<1>5. ASSUME <<a, b>> \in S!NamePlaces(f)
      PROVE  \E i \in Starts(f) : NameIn(f, i, a, b)
  <2>1. PICK s \in S!Stretches(f) :
           /\ s[1] <= a /\ b <= s[2]
           /\ \A k \in (s[1]..s[2]) \ (a..b) : f[k] \in SchemaSpaces
    BY <1>2, <1>5
  <2>2. PICK i \in 1..N, j \in 1..N : s = <<i, j>>
    BY <1>3
  <2>3. NameIn(f, i, a, b)
    BY <1>2, <1>4, <1>5, <2>1, <2>2
  <2>4. i \in Starts(f)
    BY <2>2, StretchIs DEF N
  <2> QED BY <2>3, <2>4
<1>6. ASSUME NEW i \in Starts(f), NameIn(f, i, a, b)
      PROVE  <<a, b>> \in S!NamePlaces(f)
  <2> DEFINE j == LineEnd(f, i) - 1
  <2>1. i \in 1..N /\ LineEnd(f, i) \in i..(N + 1)
    BY <1>1, LineTaken DEF N
  <2>2. a \in i..j
    BY <1>6 DEF NameIn
  <2>3. i \in 1..N /\ j \in 1..N /\ i <= j /\ LineEnd(f, i) = j + 1
    BY <1>1, <2>1, <2>2
  <2> HIDE DEF j
  <2>4. <<i, j>> \in S!Stretches(f)
    BY <2>3, StretchIs DEF N
  <2>5. /\ a <= b /\ f[a] \notin SchemaSpaces /\ f[b] \notin SchemaSpaces
        /\ i <= a /\ b <= j /\ \A k \in (i..j) \ (a..b) : f[k] \in SchemaSpaces
    BY <1>4, <1>6, <2>3, <2>4
  <2> QED BY <1>2, <2>4, <2>5
<1> QED BY <1>5, <1>6

-----------------------------------------------------------------------------
(* The lines, in the order in which they are read.                         *)

StartsFrom(f, i) == {j \in Starts(f) : i <= j}

\* The k-th of the lines s from i on starts at o[k].
Orders(f, i, s, o) ==
    /\ o \in [1..Len(s) -> StartsFrom(f, i)]
    /\ \A j, k \in 1..Len(s) : o[j] = o[k] => j = k
    /\ \A j \in StartsFrom(f, i) : \E k \in 1..Len(s) : o[k] = j
    /\ \A k \in 1..Len(s) : s[k] = ReadLine(f, o[k])

\* What Lines holds at i.
LinePart(f, i, from) ==
    IF i > Len(f) THEN <<>> ELSE <<ReadLine(f, i)>> \o from[NextLine(f, i)]

LinesRun(from, f, C) ==
    /\ from \in [1..(Len(f) + 2) -> Seq(Seq(C))]
    /\ \A i \in 1..(Len(f) + 2) : from[i] = LinePart(f, i, from)
    /\ S!Lines(f) = from[1]

LEMMA LinePartTyped ==
  ASSUME NEW C, NEW f \in Seq(C), NEW i \in 1..(Len(f) + 2),
         NEW h \in [1..(Len(f) + 2) -> Seq(Seq(C))]
  PROVE  LinePart(f, i, h) \in Seq(Seq(C))
<1>1. Len(f) \in Nat
  BY LenProperties
<1>2. CASE i > Len(f)
  BY <1>2 DEF LinePart
<1>3. CASE ~(i > Len(f))
  <2>1. i \in 1..Len(f)
    BY <1>1, <1>3
  <2>2. NextLine(f, i) \in 1..(Len(f) + 2)
    <3>1. NextLine(f, i) \in (i + 1)..(Len(f) + 2)
      BY <2>1, NextLineIs
    <3> QED BY <1>1, <2>1, <3>1
  <2> DEFINE x == ReadLine(f, i)
             rest == h[NextLine(f, i)]
  <2>3. x \in Seq(C) /\ rest \in Seq(Seq(C))
    BY <2>1, <2>2, LineTaken DEF TakenAt
  <2>4. LinePart(f, i, h) = <<x>> \o rest
    BY <1>3 DEF LinePart
  <2> HIDE DEF x, rest
  <2>5. <<x>> \in Seq(Seq(C))
    BY <2>3
  <2> QED BY <2>3, <2>4, <2>5, ConcatProperties
<1> QED BY <1>2, <1>3

LEMMA LinesSteps ==
  ASSUME NEW C, NEW f \in Seq(C)
  PROVE  \E from : LinesRun(from, f, C)
<1> DEFINE M == Len(f) + 2
           V == Seq(Seq(C))
           G == [p \in (1..M) \X [1..M -> V] |-> LinePart(f, p[1], p[2])]
           nothing == <<>>
<1>0. Len(f) \in Nat
  BY LenProperties
<1>1. M \in Nat /\ nothing \in V
  BY <1>0
<1>2. \A i \in 1..M : \A h \in [1..M -> V] : G[<<i, h>>] = LinePart(f, i, h)
  OBVIOUS
<1>3. \A i \in 1..M : \A h \in [1..M -> V] : G[<<i, h>>] \in V
  BY <1>2, LinePartTyped
<1>4. ASSUME NEW i \in 1..M, NEW h, NEW g, \A j \in (i + 1)..M : h[j] = g[j]
      PROVE  LinePart(f, i, h) = LinePart(f, i, g)
  <2>1. CASE i > Len(f)
    BY <2>1 DEF LinePart
  <2>2. CASE ~(i > Len(f))
    <3>1. i \in 1..Len(f)
      BY <1>0, <2>2
    <3>2. NextLine(f, i) \in (i + 1)..M
      BY <3>1, NextLineIs
    <3>3. h[NextLine(f, i)] = g[NextLine(f, i)]
      BY <1>4, <3>2
    <3> QED BY <2>2, <3>3 DEF LinePart
  <2> QED BY <2>1, <2>2
<1>5. FillsDown(G, M, V)
  <2>1. ASSUME NEW i \in 1..M, NEW h \in [1..M -> V], NEW g \in [1..M -> V],
               \A j \in (i + 1)..M : h[j] = g[j]
        PROVE  G[<<i, h>>] = G[<<i, g>>]
    <3>1. LinePart(f, i, h) = LinePart(f, i, g)
      <4> HIDE DEF M, V, G
      <4> QED BY <1>4, <2>1
    <3> QED BY <1>2, <3>1
  <2> HIDE DEF G, M, V
  <2> QED BY <1>3, <2>1 DEF FillsDown
<1> HIDE DEF G, nothing, V, M
<1>6. PICK g : IsFilled(g, G, M, V)
  BY <1>1, <1>5, Downward
<1> DEFINE Is(from) == from = [offset \in 1..(Len(f) + 2) |->
                           IF offset > Len(f) THEN <<>>
                           ELSE <<S!Codec!ReadLine(f, offset)>>
                                  \o from[S!Codec!LineEnd(f, offset) + 1]]
           found == CHOOSE from : Is(from)
           Same(from) == from = [i \in 1..M |-> LinePart(f, i, from)]
<1>7. \A from : Is(from) <=> Same(from)
  BY SchemaReads DEF LinePart, NextLine, M
<1>8. Is(g)
  <2>1. g \in [1..M -> V] /\ \A i \in 1..M : g[i] = LinePart(f, i, g)
    BY <1>2, <1>6 DEF IsFilled
  <2>2. Same(g)
    BY <2>1
  <2> HIDE DEF Is, Same
  <2> QED BY <1>7, <2>2
<1>9. Is(found)
  <2> HIDE DEF Is
  <2> QED BY <1>8
<1>10. S!Lines(f) = found[1]
  BY DEF S!Lines
<1> HIDE DEF found, Is
<1>11. /\ DOMAIN found = 1..M /\ found = [i \in 1..M |-> found[i]]
       /\ \A i \in 1..M : found[i] = LinePart(f, i, found)
  <2>1. Same(found)
    BY <1>7, <1>9
  <2> QED BY <2>1
<1>12. \A i \in 1..M : found[i] \in V
  <2> DEFINE T == {i \in 1..M : found[i] \in V}
  <2>1. ASSUME NEW i \in 1..M, \A j \in (i + 1)..M : j \in T PROVE i \in T
    <3> DEFINE h == [j \in 1..M |-> IF i < j THEN found[j] ELSE nothing]
    <3>1. h \in [1..M -> V]
      <4> SUFFICES ASSUME NEW j \in 1..M PROVE (IF i < j THEN found[j] ELSE nothing) \in V
        OBVIOUS
      <4>1. i < j => j \in T
        BY <1>1, <2>1
      <4> QED BY <1>1, <4>1
    <3>2. LinePart(f, i, h) = LinePart(f, i, found)
      <4>1. \A j \in (i + 1)..M : h[j] = found[j]
        BY <1>1
      <4> HIDE DEF h
      <4> QED BY <1>4, <4>1
    <3> HIDE DEF h
    <3>3. LinePart(f, i, h) \in V
      BY <3>1, LinePartTyped DEF M, V
    <3> QED BY <1>11, <3>2, <3>3
  <2> HIDE DEF T
  <2>2. \A i \in 1..M : i \in T
    BY <1>1, <2>1, DownTo
  <2> QED BY <2>2 DEF T
<1>13. found \in [1..M -> V]
  BY <1>11, <1>12
<1> QED BY <1>10, <1>11, <1>13 DEF LinesRun, M, V

\* One line before the others.
LEMMA OrdersStep ==
  ASSUME NEW C, NEW f \in Seq(C), NEW i \in Starts(f), NEW tail \in Seq(Seq(C)), NEW o,
         Orders(f, NextLine(f, i), tail, o)
  PROVE  \E p : Orders(f, i, <<ReadLine(f, i)>> \o tail, p)
<1> DEFINE m == NextLine(f, i)
           x == ReadLine(f, i)
           n == Len(tail)
           s == <<x>> \o tail
           p == [k \in 1..(n + 1) |-> IF k = 1 THEN i ELSE o[k - 1]]
           T == StartsFrom(f, m)
<1>1. Starts(f) \subseteq 1..Len(f) /\ Len(f) \in Nat /\ i \in 1..Len(f) /\ n \in Nat
  BY StartsTyped, LenProperties
<1>2. /\ m \in (i + 1)..(Len(f) + 2) /\ \A j \in Starts(f) : i <= j => j = i \/ m <= j
      /\ x \in Seq(C)
  BY <1>1, NextLineIs, LineTaken DEF TakenAt
<1> HIDE DEF m, x
<1>3. StartsFrom(f, i) = {i} \cup T /\ i \notin T
  BY <1>1, <1>2 DEF StartsFrom
<1>4. Len(s) = n + 1 /\ s[1] = x /\ \A k \in 1..n : s[k + 1] = tail[k]
  <2> DEFINE one == <<x>>
  <2>1. one \in Seq(Seq(C)) /\ Len(one) = 1 /\ one[1] = x
    BY <1>2
  <2> HIDE DEF one
  <2>2. /\ Len(one \o tail) = Len(one) + Len(tail)
        /\ \A k \in 1..(Len(one) + Len(tail)) :
              (one \o tail)[k] = IF k <= Len(one) THEN one[k] ELSE tail[k - Len(one)]
    BY <2>1, ConcatProperties
  <2>3. s = one \o tail
    BY DEF one
  <2> HIDE DEF s, n
  <2>4. /\ Len(s) = n + 1
        /\ \A k \in 1..(n + 1) : s[k] = IF k <= 1 THEN x ELSE tail[k - 1]
    <3>1. \A k \in 1..(n + 1) : k <= 1 => k = 1
      BY <1>1
    <3> QED BY <1>1, <2>1, <2>2, <2>3, <3>1 DEF n
  <2>5. 1 \in 1..(n + 1)
    BY <1>1
  <2>6. ASSUME NEW k \in 1..n PROVE s[k + 1] = tail[k]
    <3>1. k + 1 \in 1..(n + 1) /\ ~(k + 1 <= 1) /\ (k + 1) - 1 = k
      BY <1>1
    <3> QED BY <2>4, <3>1
  <2> QED BY <2>4, <2>5, <2>6
<1>5. /\ o \in [1..n -> T] /\ \A j, k \in 1..n : o[j] = o[k] => j = k
      /\ \A j \in T : \E k \in 1..n : o[k] = j
      /\ \A k \in 1..n : tail[k] = ReadLine(f, o[k])
  BY DEF Orders, m
<1> HIDE DEF n, s, T
<1>6. \A k \in 1..(n + 1) : k = 1 \/ (k - 1 \in 1..n /\ (k - 1) + 1 = k)
  BY <1>1
<1>7. p[1] = i /\ \A k \in 1..n : p[k + 1] = o[k] /\ k + 1 \in 1..(n + 1)
  <2>1. 1 \in 1..(n + 1)
    BY <1>1
  <2>2. \A k \in 1..n : k + 1 \in 1..(n + 1) /\ k + 1 # 1 /\ (k + 1) - 1 = k
    BY <1>1
  <2> QED BY <2>1, <2>2
<1>8. p \in [1..(n + 1) -> {i} \cup T]
  <2>1. \A k \in 1..(n + 1) : p[k] \in {i} \cup T
    BY <1>5, <1>6
  <2> QED BY <2>1
<1> HIDE DEF p
<1>9. ASSUME NEW j \in 1..(n + 1), NEW k \in 1..(n + 1), p[j] = p[k] PROVE j = k
  <2>1. j = 1 \/ (p[j] = o[j - 1] /\ o[j - 1] \in T)
    BY <1>5, <1>6, <1>7
  <2>2. k = 1 \/ (p[k] = o[k - 1] /\ o[k - 1] \in T)
    BY <1>5, <1>6, <1>7
  <2>3. CASE j = 1 \/ k = 1
    BY <1>3, <1>7, <1>9, <2>1, <2>2, <2>3
  <2>4. CASE j # 1 /\ k # 1
    <3>1. j - 1 = k - 1
      BY <1>5, <1>6, <1>9, <2>1, <2>2, <2>4
    <3> QED BY <1>1, <3>1
  <2> QED BY <2>3, <2>4
<1>10. ASSUME NEW j \in {i} \cup T PROVE \E k \in 1..(n + 1) : p[k] = j
  <2>1. CASE j = i
    <3>1. 1 \in 1..(n + 1)
      BY <1>1
    <3> QED BY <1>7, <2>1, <3>1
  <2>2. CASE j \in T
    <3>1. PICK k \in 1..n : o[k] = j
      BY <1>5, <2>2
    <3> QED BY <1>7, <3>1
  <2> QED BY <2>1, <2>2
<1>11. ASSUME NEW k \in 1..(n + 1) PROVE s[k] = ReadLine(f, p[k])
  <2>1. CASE k = 1
    BY <1>4, <1>7, <2>1 DEF x
  <2>2. CASE k # 1
    <3>1. s[k] = tail[k - 1] /\ p[k] = o[k - 1] /\ k - 1 \in 1..n
      BY <1>4, <1>6, <1>7, <2>2
    <3> QED BY <1>5, <3>1
  <2> QED BY <2>1, <2>2
<1>12. Orders(f, i, s, p)
  BY <1>3, <1>4, <1>8, <1>9, <1>10, <1>11 DEF Orders
<1> QED BY <1>12 DEF s, x

LEMMA LinesAre ==
  ASSUME NEW C, NEW f \in Seq(C)
  PROVE  S!Lines(f) \in Seq(Seq(C)) /\ \E o : Orders(f, 1, S!Lines(f), o)
<1>1. PICK from : LinesRun(from, f, C)
  BY LinesSteps
<1> DEFINE N == Len(f) + 2
           Ordered(i) == \E o : Orders(f, i, from[i], o)
           T == {i \in 1..N : i > Len(f) \/ i \in Starts(f) => Ordered(i)}
<1>2. Len(f) \in Nat /\ N \in Nat /\ 1 \in 1..N /\ Starts(f) \subseteq 1..Len(f)
  BY LenProperties, StartsTyped
<1>3. ASSUME NEW i \in 1..N, \A j \in (i + 1)..N : j \in T PROVE i \in T
  <2> SUFFICES ASSUME i > Len(f) \/ i \in Starts(f) PROVE Ordered(i)
    OBVIOUS
  <2>1. CASE i > Len(f)
    <3>1. from[i] = <<>>
      BY <1>1, <2>1 DEF LinesRun, LinePart
    <3>2. Len(from[i]) = 0 /\ 1..0 = {}
      BY <3>1
    <3>3. StartsFrom(f, i) = {}
      BY <1>2, <2>1 DEF StartsFrom
    <3> DEFINE o == [k \in {} |-> 1]
    <3>4. o \in [{} -> {}]
      OBVIOUS
    <3> HIDE DEF o
    <3>5. Orders(f, i, from[i], o)
      BY <3>2, <3>3, <3>4 DEF Orders
    <3> QED BY <3>5
  <2>2. CASE ~(i > Len(f))
    <3>1. i \in Starts(f) /\ i \in 1..Len(f)
      BY <1>2, <2>2
    <3> DEFINE m == NextLine(f, i)
    <3>2. m \in (i + 1)..N /\ (m > Len(f) \/ m \in Starts(f))
      BY <3>1, NextLineIs
    <3>3. Ordered(m) /\ m \in 1..N
      <4>1. m \in T
        BY <1>3, <3>2
      <4> QED BY <3>2, <4>1
    <3>4. from[m] \in Seq(Seq(C))
      BY <1>1, <3>3 DEF LinesRun
    <3>5. from[i] = <<ReadLine(f, i)>> \o from[m]
      BY <1>1, <2>2 DEF LinesRun, LinePart
    <3> QED BY <3>1, <3>3, <3>4, <3>5, OrdersStep
  <2> QED BY <2>1, <2>2
<1> HIDE DEF T
<1>4. 1 \in T
  <2> HIDE DEF N
  <2>1. \A i \in 1..N : i \in T
    BY <1>2, <1>3, DownTo
  <2> QED BY <1>2, <2>1
<1>5. 1 > Len(f) \/ 1 \in Starts(f)
  BY <1>2, LenProperties DEF Starts
<1>6. Ordered(1)
  BY <1>4, <1>5 DEF T
<1> QED BY <1>1, <1>2, <1>6 DEF LinesRun

-----------------------------------------------------------------------------
(* What the load keeps of the names.                                       *)

Loads(C) == [columns : Seq(Seq(C)), duplicate : BOOLEAN]

LoadRuns(g, lines, C) ==
    /\ g \in [0..Len(lines) -> Loads(C)] /\ g[0] = S!NothingLoaded
    /\ \A i \in 1..Len(lines) : g[i] = S!AddColumn(g[i - 1], S!Trim(lines[i]))
    /\ S!Load(lines) = g[Len(lines)]

LEMMA ColumnAdded ==
  ASSUME NEW C, NEW st \in Loads(C), NEW name \in Seq(C)
  PROVE  /\ S!AddColumn(st, name) \in Loads(C)
         /\ \/ S!AddColumn(st, name) = st /\ (st.duplicate \/ name = <<>>)
            \/ /\ ~st.duplicate /\ name # <<>> /\ name \in ToSet(st.columns)
               /\ S!AddColumn(st, name).duplicate
            \/ /\ ~st.duplicate /\ name # <<>> /\ name \notin ToSet(st.columns)
               /\ ~S!AddColumn(st, name).duplicate
               /\ S!AddColumn(st, name).columns = Append(st.columns, name)
<1> DEFINE names == Seq(C)
           columns == st.columns
<1>1. /\ st \in [columns : Seq(names), duplicate : BOOLEAN] /\ name \in names
      /\ columns \in Seq(names)
  BY DEF Loads
<1>2. S!Contains(columns, name) <=> name \in ToSet(columns)
  BY <1>1, LenProperties DEF S!Contains, ToSet
<1>3. Append(columns, name) \in Seq(names)
  BY <1>1, AppendProperties
<1> DEFINE more == Append(columns, name)
<1> HIDE DEF names, more
<1>4. CASE st.duplicate \/ name = <<>>
  BY <1>4 DEF S!AddColumn
<1>5. CASE ~(st.duplicate \/ name = <<>>) /\ name \in ToSet(columns)
  <2>1. S!AddColumn(st, name) = [st EXCEPT !.duplicate = TRUE]
    BY <1>2, <1>5 DEF S!AddColumn
  <2>2. /\ [st EXCEPT !.duplicate = TRUE] \in [columns : Seq(names), duplicate : BOOLEAN]
        /\ [st EXCEPT !.duplicate = TRUE].duplicate
    BY <1>1
  <2> QED BY <1>5, <2>1, <2>2 DEF Loads, names
<1>6. CASE ~(st.duplicate \/ name = <<>>) /\ name \notin ToSet(columns)
  <2>1. S!AddColumn(st, name) = [st EXCEPT !.columns = more]
    BY <1>2, <1>6 DEF S!AddColumn, more
  <2>2. /\ [st EXCEPT !.columns = more] \in [columns : Seq(names), duplicate : BOOLEAN]
        /\ [st EXCEPT !.columns = more].columns = more
        /\ [st EXCEPT !.columns = more].duplicate = st.duplicate
    BY <1>1, <1>3 DEF more
  <2> QED BY <1>6, <2>1, <2>2 DEF Loads, names, more
<1>7. S!AddColumn(st, name) = st => S!AddColumn(st, name) \in Loads(C)
  OBVIOUS
<1>8. CASE st.duplicate \/ name = <<>>
  BY <1>4, <1>7, <1>8 DEF S!AddColumn
<1> QED BY <1>5, <1>6, <1>8

LEMMA LoadSteps ==
  ASSUME NEW C, NEW lines \in Seq(Seq(C)), \A i \in 1..Len(lines) : S!Trim(lines[i]) \in Seq(C)
  PROVE  \E g : LoadRuns(g, lines, C)
<1> DEFINE N == Len(lines)
           V == Loads(C)
           start == S!NothingLoaded
           G == [p \in (1..N) \X V |-> S!AddColumn(p[2], S!Trim(lines[p[1]]))]
<1>1. N \in Nat
  BY LenProperties
<1>2. \A i \in 1..N : \A v \in V : G[<<i, v>>] = S!AddColumn(v, S!Trim(lines[i]))
  OBVIOUS
<1>3. StaysIn(G, N, V)
  <2> SUFFICES ASSUME NEW i \in 1..N, NEW v \in V PROVE G[<<i, v>>] \in V
    BY DEF StaysIn
  <2>1. S!AddColumn(v, S!Trim(lines[i])) \in V
    BY ColumnAdded
  <2> QED BY <1>2, <2>1
<1>4. start \in V
  <2> DEFINE names == Seq(C)
  <2> HIDE DEF names
  <2>1. start \in [columns : Seq(names), duplicate : BOOLEAN]
    BY DEF S!NothingLoaded
  <2> QED BY <2>1 DEF Loads, names
<1> HIDE DEF G, start
<1>5. PICK g : Recurs(g, N, V, start, G)
  BY <1>1, <1>3, <1>4, Recursion
<1>6. /\ g \in [0..N -> V] /\ g[0] = start
      /\ \A i \in 1..N : g[i] = S!AddColumn(g[i - 1], S!Trim(lines[i]))
  <2>1. g \in [0..N -> V] /\ g[0] = start /\ \A i \in 1..N : g[i] = G[<<i, g[i - 1]>>]
    BY <1>5 DEF Recurs
  <2>2. \A i \in 1..N : i - 1 \in 0..N
    BY <1>1
  <2>3. \A i \in 1..N : g[i - 1] \in V
    BY <2>1, <2>2
  <2> QED BY <1>2, <2>1, <2>3
<1> DEFINE Is(f) == f = [i \in 0..Len(lines) |->
                          IF i = 0 THEN S!NothingLoaded
                          ELSE S!AddColumn(f[i - 1], S!Trim(lines[i]))]
           found == CHOOSE f : Is(f)
<1>7. Is(g)
  <2>1. \A i \in 0..N : g[i] = IF i = 0 THEN S!NothingLoaded
                               ELSE S!AddColumn(g[i - 1], S!Trim(lines[i]))
    <3> TAKE i \in 0..N
    <3>1. CASE i = 0
      BY <1>6, <3>1 DEF start
    <3>2. CASE i # 0
      <4>1. i \in 1..N
        BY <1>1, <3>2
      <4> QED BY <1>6, <3>2, <4>1
    <3> QED BY <3>1, <3>2
  <2> QED BY <1>6, <2>1
<1>8. Is(found)
  <2> HIDE DEF Is
  <2> QED BY <1>7
<1>9. S!Load(lines) = found[N]
  BY DEF S!Load
<1> HIDE DEF found
<1>10. PICK h : /\ h = found /\ h[0] = start
                /\ \A i \in 1..N : h[i] = S!AddColumn(h[i - 1], S!Trim(lines[i]))
  <2>1. 0 \in 0..N /\ \A i \in 1..N : i \in 0..N /\ i # 0
    BY <1>1
  <2> QED BY <1>8, <2>1 DEF start
<1> HIDE DEF Is
<1>11. \A i \in 0..N : h[i] = g[i]
  <2>1. \A i \in 1..N : h[i - 1] = g[i - 1] => h[i] = g[i]
    BY <1>6, <1>10
  <2>2. h[0] = g[0]
    BY <1>6, <1>10
  <2>3. N \in Nat
    BY <1>1
  <2> HIDE DEF N
  <2>4. SameSteps(h, g, N)
    BY <2>1, <2>2 DEF SameSteps
  <2>5. SameUpTo(h, g, N)
    BY <2>3, <2>4, SameRecursion
  <2> QED BY <2>5 DEF SameUpTo
<1>12. S!Load(lines) = g[N]
  <2>1. N \in 0..N
    BY <1>1
  <2> QED BY <1>9, <1>10, <1>11, <2>1
<1> QED BY <1>6, <1>12 DEF LoadRuns, start

\* What has been loaded of the first n names: all of them, or a repeated one.
NamesKept(names, n) == {names[k] : k \in 1..n} \ {<<>>}

Repeats(names, j, k) == j # k /\ names[j] # <<>> /\ names[j] = names[k]

LoadedIs(st, names, n) ==
    IF st.duplicate THEN \E j, k \in 1..n : Repeats(names, j, k)
    ELSE /\ ToSet(st.columns) = NamesKept(names, n)
         /\ \A j, k \in DOMAIN st.columns : st.columns[j] = st.columns[k] => j = k
         /\ \A j, k \in 1..n : ~Repeats(names, j, k)

LEMMA LoadedStep ==
  ASSUME NEW C, NEW N \in Nat, NEW names \in [1..N -> Seq(C)], NEW n \in 1..N, NEW st \in Loads(C),
         LoadedIs(st, names, n - 1)
  PROVE  LoadedIs(S!AddColumn(st, names[n]), names, n)
<1> DEFINE name == names[n]
           next == S!AddColumn(st, name)
           columns == st.columns
<1>1. name \in Seq(C) /\ columns \in Seq(Seq(C)) /\ next \in Loads(C)
  BY ColumnAdded DEF Loads
<1>2. \A k \in 1..n : k = n \/ k \in 1..(n - 1)
  OBVIOUS
<1>3. n \in 1..n /\ \A k \in 1..(n - 1) : k \in 1..n /\ k # n
  OBVIOUS
<1>4. NamesKept(names, n) = (NamesKept(names, n - 1) \cup {name}) \ {<<>>}
  <2>1. {names[k] : k \in 1..n} = {names[k] : k \in 1..(n - 1)} \cup {name}
    BY <1>2, <1>3
  <2> QED BY <2>1 DEF NamesKept
<1> HIDE DEF next
<1>5. CASE next = st /\ (st.duplicate \/ name = <<>>)
  <2>1. CASE st.duplicate
    <3>1. PICK j \in 1..(n - 1), k \in 1..(n - 1) : Repeats(names, j, k)
      BY <2>1 DEF LoadedIs
    <3> QED BY <1>3, <1>5, <2>1, <3>1 DEF LoadedIs, next
  <2>2. CASE ~st.duplicate
    <3>1. name = <<>> /\ NamesKept(names, n) = NamesKept(names, n - 1)
      BY <1>4, <1>5, <2>2 DEF NamesKept
    <3>2. \A j, k \in 1..n : ~Repeats(names, j, k)
      BY <1>2, <2>2, <3>1 DEF LoadedIs, Repeats
    <3> QED BY <1>5, <2>2, <3>1, <3>2 DEF LoadedIs, next
  <2> QED BY <2>1, <2>2
<1>6. CASE ~st.duplicate /\ name # <<>> /\ name \in ToSet(columns) /\ next.duplicate
  <2>1. PICK k \in 1..(n - 1) : names[k] = name
    BY <1>6 DEF LoadedIs, NamesKept
  <2>2. Repeats(names, k, n) /\ k \in 1..n
    BY <1>3, <1>6, <2>1 DEF Repeats
  <2> QED BY <1>3, <1>6, <2>2 DEF LoadedIs, next
<1>7. CASE /\ ~st.duplicate /\ name # <<>> /\ name \notin ToSet(columns)
           /\ ~next.duplicate /\ next.columns = Append(columns, name)
  <2> DEFINE more == Append(columns, name)
             M == Len(columns)
  <2>1. /\ Len(more) = M + 1 /\ M \in Nat
        /\ \A i \in 1..M : more[i] = columns[i]
        /\ more[M + 1] = name
        /\ DOMAIN columns = 1..M /\ DOMAIN more = 1..(M + 1)
    BY <1>1, AppendAt
  <2> HIDE DEF more, M
  <2>2. \A i \in 1..(M + 1) : i = M + 1 \/ i \in 1..M
    BY <2>1
  <2>3. \A i \in 1..M : i \in 1..(M + 1)
    BY <2>1
  <2>4. M + 1 \in 1..(M + 1)
    BY <2>1
  <2>5. ToSet(more) = ToSet(columns) \cup {name}
    BY <2>1, <2>2, <2>3, <2>4 DEF ToSet
  <2>6. \A i \in 1..M : columns[i] \in ToSet(columns)
    BY <2>1 DEF ToSet
  <2>7. \A j, k \in 1..M : columns[j] = columns[k] => j = k
    BY <1>7, <2>1 DEF LoadedIs
  <2>8. \A j, k \in 1..(M + 1) : more[j] = more[k] => j = k
    BY <1>7, <2>1, <2>2, <2>6, <2>7
  <2>9. ToSet(more) = NamesKept(names, n)
    <3>1. ToSet(columns) = NamesKept(names, n - 1)
      BY <1>7 DEF LoadedIs
    <3> QED BY <1>4, <1>7, <2>5, <3>1 DEF NamesKept
  <2>10. \A k \in 1..(n - 1) : names[k] # name
    BY <1>7 DEF LoadedIs, NamesKept
  <2>11. \A j, k \in 1..n : ~Repeats(names, j, k)
    BY <1>2, <1>7, <2>10 DEF LoadedIs, Repeats
  <2> QED BY <1>7, <2>1, <2>8, <2>9, <2>11 DEF LoadedIs, next, more
<1> QED BY <1>1, <1>5, <1>6, <1>7, ColumnAdded DEF next

LEMMA LoadIs ==
  ASSUME NEW C, NEW lines \in Seq(Seq(C)), NEW names \in [1..Len(lines) -> Seq(C)],
         \A i \in 1..Len(lines) : S!Trim(lines[i]) = names[i]
  PROVE  S!Load(lines) \in Loads(C) /\ LoadedIs(S!Load(lines), names, Len(lines))
<1> DEFINE N == Len(lines)
<1>1. N \in Nat
  BY LenProperties
<1>2. PICK g : LoadRuns(g, lines, C)
  <2>1. \A i \in 1..Len(lines) : S!Trim(lines[i]) \in Seq(C)
    OBVIOUS
  <2> QED BY <2>1, LoadSteps
<1>3. /\ g \in [0..N -> Loads(C)] /\ g[0] = S!NothingLoaded /\ S!Load(lines) = g[N]
      /\ \A i \in 1..N : g[i] = S!AddColumn(g[i - 1], names[i])
  BY <1>2 DEF LoadRuns
<1> HIDE DEF N
<1>4. names \in [1..N -> Seq(C)]
  BY DEF N
<1> DEFINE T == {i \in 0..N : LoadedIs(g[i], names, i)}
<1>5. 0 \in T
  <2>1. 0 \in 0..N /\ 1..0 = {}
    BY <1>1
  <2>2. ~S!NothingLoaded.duplicate /\ S!NothingLoaded.columns = <<>>
    BY DEF S!NothingLoaded
  <2>3. DOMAIN S!NothingLoaded.columns = {} /\ ToSet(S!NothingLoaded.columns) = {}
    BY <2>2 DEF ToSet
  <2>4. LoadedIs(S!NothingLoaded, names, 0)
    BY <2>1, <2>2, <2>3 DEF LoadedIs, NamesKept
  <2> QED BY <1>3, <2>1, <2>4
<1>6. ASSUME NEW i \in 1..N, i - 1 \in T PROVE i \in T
  <2>1. i - 1 \in 0..N /\ i \in 0..N /\ g[i - 1] \in Loads(C)
    BY <1>1, <1>3
  <2>2. LoadedIs(S!AddColumn(g[i - 1], names[i]), names, i)
    BY <1>1, <1>4, <1>6, <2>1, LoadedStep
  <2> QED BY <1>3, <2>1, <2>2
<1> HIDE DEF T
<1>7. \A i \in 0..N : i \in T
  BY <1>1, <1>5, <1>6, UpTo
<1>8. N \in 0..N /\ N \in T
  BY <1>1, <1>7
<1> QED BY <1>3, <1>8 DEF T, N

-----------------------------------------------------------------------------
(* The columns are the names.                                              *)

\* No name stands on two lines.
LEMMA OneLine ==
  ASSUME NEW C, NEW f \in Seq(C), NEW i \in Starts(f), NEW j \in Starts(f), NEW a, NEW b,
         NameIn(f, i, a, b), NameIn(f, j, a, b)
  PROVE  i = j
<1>1. i \in 1..Len(f) /\ j \in 1..Len(f) /\ Len(f) \in Nat
  BY StartsTyped
<1>2. a \in i..(LineEnd(f, i) - 1) /\ a \in j..(LineEnd(f, j) - 1)
  BY DEF NameIn
<1>3. /\ i <= j => j = i \/ LineEnd(f, i) + 1 <= j
      /\ j <= i => i = j \/ LineEnd(f, j) + 1 <= i
  BY <1>1, NextLineIs DEF NextLine
<1>4. LineEnd(f, i) \in Int /\ LineEnd(f, j) \in Int
  BY <1>1, LineTaken
<1> DEFINE p == LineEnd(f, i)
           q == LineEnd(f, j)
<1>5. /\ a \in i..(p - 1) /\ a \in j..(q - 1) /\ p \in Int /\ q \in Int /\ i \in Int /\ j \in Int
      /\ i <= j => j = i \/ p + 1 <= j
      /\ j <= i => i = j \/ q + 1 <= i
  BY <1>1, <1>2, <1>3, <1>4
<1> HIDE DEF p, q
<1> QED BY <1>5

LEMMA NameWithin ==
  ASSUME NEW C, NEW f \in Seq(C), NEW i \in 1..Len(f), NEW a, NEW b, NameIn(f, i, a, b)
  PROVE  a \in 1..Len(f) /\ b \in 1..Len(f)
<1> DEFINE e == LineEnd(f, i)
           N == Len(f)
<1>1. N \in Nat /\ i \in 1..N /\ e \in i..(N + 1) /\ a \in i..(e - 1) /\ b \in a..(e - 1)
  BY LineTaken, LenProperties DEF NameIn
<1> HIDE DEF e, N
<1>2. a \in 1..N /\ b \in 1..N
  BY <1>1
<1> QED BY <1>2 DEF N

NamesOf(f) == {NameOf(f, i) : i \in Starts(f)} \ {<<>>}

LEMMA NamesAre ==
  ASSUME NEW C, NEW f \in Seq(C)
  PROVE  S!Names(f) = NamesOf(f)
<1>1. ASSUME NEW p \in S!NamePlaces(f)
      PROVE  SubSeq(f, p[1], p[2]) \in NamesOf(f)
  <2>1. PICK i \in Starts(f) : NameIn(f, i, p[1], p[2])
    BY NamePlacesAre
  <2>2. i \in 1..Len(f)
    BY StartsTyped
  <2>3. NameOf(f, i) = SubSeq(f, p[1], p[2]) /\ NameOf(f, i) # <<>>
    BY <2>1, <2>2, NameOfLine
  <2> QED BY <2>3 DEF NamesOf
<1>2. ASSUME NEW i \in Starts(f), NameOf(f, i) # <<>>
      PROVE  \E p \in S!NamePlaces(f) : NameOf(f, i) = SubSeq(f, p[1], p[2])
  <2>1. i \in 1..Len(f) /\ Len(f) \in Nat
    BY StartsTyped
  <2>2. PICK a, b : NameIn(f, i, a, b)
    BY <1>2, <2>1, NameOfLine
  <2>3. NameOf(f, i) = SubSeq(f, a, b)
    BY <2>1, <2>2, NameOfLine
  <2>4. a \in 1..Len(f) /\ b \in 1..Len(f)
    BY <2>1, <2>2, NameWithin
  <2> DEFINE p == <<a, b>>
  <2>5. p \in S!NamePlaces(f)
    BY <2>2, <2>4, NamePlacesAre
  <2> QED BY <2>3, <2>5
<1>3. S!Names(f) = {SubSeq(f, p[1], p[2]) : p \in S!NamePlaces(f)}
  BY DEF S!Names
<1> QED BY <1>1, <1>2, <1>3 DEF NamesOf

\* There are more places than names when one name has two lines.
TwoLines(f) ==
    \E i, j \in Starts(f) : i # j /\ NameOf(f, i) # <<>> /\ NameOf(f, i) = NameOf(f, j)

LEMMA NamesCounted ==
  ASSUME NEW C, NEW f \in Seq(C)
  PROVE  Cardinality(S!NamePlaces(f)) > Cardinality(S!Names(f)) <=> TwoLines(f)
<1> DEFINE N == Len(f)
           places == S!NamePlaces(f)
           names == S!Names(f)
           at == [p \in places |-> SubSeq(f, p[1], p[2])]
<1>1. IsFiniteSet(places)
  <2>1. N \in Nat
    BY LenProperties
  <2>2. IsFiniteSet(1..N)
    BY <2>1, FS_Interval
  <2>3. IsFiniteSet((1..N) \X (1..N))
    <3> DEFINE R == 1..N
    <3>1. IsFiniteSet(R)
      BY <2>2
    <3> HIDE DEF R
    <3>2. IsFiniteSet(R \X R)
      BY <3>1, FS_Product
    <3> QED BY <3>2 DEF R
  <2>4. places \subseteq (1..N) \X (1..N)
    BY DEF S!NamePlaces
  <2> QED BY <2>3, <2>4, FS_Subset
<1>2. at \in Surjection(places, names)
  <2>1. at \in [places -> names]
    BY DEF S!Names
  <2>2. \A y \in names : \E p \in places : at[p] = y
    BY DEF S!Names
  <2> HIDE DEF at, places, names
  <2> QED BY <2>1, <2>2 DEF Surjection
<1>3. \A p \in places : at[p] = SubSeq(f, p[1], p[2])
  OBVIOUS
<1> HIDE DEF at
<1>4. /\ Cardinality(places) \in Nat /\ Cardinality(names) \in Nat
      /\ Cardinality(names) <= Cardinality(places)
      /\ Cardinality(names) = Cardinality(places) <=> at \in Injection(places, names)
  BY <1>1, <1>2, FS_Surjection, FS_CardinalityType
<1>5. at \in Injection(places, names) <=> \A p, q \in places : at[p] = at[q] => p = q
  BY <1>2 DEF Injection, Surjection, IsInjective
<1>6. ASSUME TwoLines(f) PROVE \E p, q \in places : at[p] = at[q] /\ p # q
  <2>1. PICK i \in Starts(f), j \in Starts(f) :
           i # j /\ NameOf(f, i) # <<>> /\ NameOf(f, i) = NameOf(f, j)
    BY <1>6 DEF TwoLines
  <2>2. ASSUME NEW k \in Starts(f), NameOf(f, k) # <<>>
        PROVE  \E p \in places : at[p] = NameOf(f, k) /\ NameIn(f, k, p[1], p[2])
    <3>1. k \in 1..Len(f)
      BY StartsTyped
    <3>2. PICK a, b : NameIn(f, k, a, b)
      BY <2>2, <3>1, NameOfLine
    <3> DEFINE p == <<a, b>>
    <3>3. SubSeq(f, a, b) = NameOf(f, k)
      BY <3>1, <3>2, NameOfLine
    <3>4. p \in places
      <4>1. a \in 1..Len(f) /\ b \in 1..Len(f)
        BY <3>1, <3>2, NameWithin
      <4> QED BY <3>2, <4>1, NamePlacesAre
    <3> QED BY <1>3, <3>2, <3>3, <3>4
  <2>3. PICK p \in places : at[p] = NameOf(f, i) /\ NameIn(f, i, p[1], p[2])
    BY <2>1, <2>2
  <2>4. PICK q \in places : at[q] = NameOf(f, j) /\ NameIn(f, j, q[1], q[2])
    BY <2>1, <2>2
  <2>5. p # q
    BY <2>1, <2>3, <2>4, OneLine
  <2> QED BY <2>1, <2>3, <2>4, <2>5
<1>7. ASSUME NEW p \in places, NEW q \in places, at[p] = at[q], p # q PROVE TwoLines(f)
  <2>1. PICK i \in Starts(f) : NameIn(f, i, p[1], p[2])
    BY NamePlacesAre
  <2>2. PICK j \in Starts(f) : NameIn(f, j, q[1], q[2])
    BY NamePlacesAre
  <2>3. i \in 1..Len(f) /\ j \in 1..Len(f)
    BY StartsTyped
  <2>4. NameOf(f, i) = at[p] /\ NameOf(f, j) = at[q] /\ NameOf(f, i) # <<>>
    <3>1. NameOf(f, i) = SubSeq(f, p[1], p[2]) /\ NameOf(f, i) # <<>>
      BY <2>1, <2>3, NameOfLine
    <3>2. NameOf(f, j) = SubSeq(f, q[1], q[2])
      BY <2>2, <2>3, NameOfLine
    <3> QED BY <1>3, <3>1, <3>2
  <2>5. i # j
    <3>1. p \in (1..Len(f)) \X (1..Len(f)) /\ q \in (1..Len(f)) \X (1..Len(f))
      BY DEF S!NamePlaces
    <3>2. i = j => p[1] = q[1] /\ p[2] = q[2]
      BY <2>1, <2>2, <2>3, NameUnique
    <3> QED BY <1>7, <3>1, <3>2
  <2> QED BY <1>7, <2>4, <2>5 DEF TwoLines
<1> HIDE DEF places, names
<1>8. TwoLines(f) <=> ~(at \in Injection(places, names))
  BY <1>5, <1>6, <1>7
<1> DEFINE m == Cardinality(places)
           n == Cardinality(names)
<1>9. m > n <=> ~(m = n)
  <2>1. m \in Nat /\ n \in Nat /\ n <= m
    BY <1>4
  <2> HIDE DEF m, n
  <2> QED BY <2>1
<1>10. m > n <=> TwoLines(f)
  BY <1>4, <1>8, <1>9
<1> QED BY <1>10 DEF m, n, places, names

LEMMA ColumnFound ==
  ASSUME NEW A, NEW columns \in Seq(A), NEW i \in DOMAIN columns,
         \A j, k \in DOMAIN columns : columns[j] = columns[k] => j = k
  PROVE  S!FindColumn(columns, columns[i]) = i
<1> DEFINE name == columns[i]
           First(j) == columns[j] = name /\ \A k \in 1..(j - 1) : columns[k] # name
<1>1. DOMAIN columns = 1..Len(columns) /\ Len(columns) \in Nat
  BY LenProperties
<1>2. S!Contains(columns, name)
  BY <1>1 DEF S!Contains
<1>3. S!FindColumn(columns, name) = CHOOSE j \in DOMAIN columns : First(j)
  BY <1>2 DEF S!FindColumn
<1>4. First(i)
  <2>1. \A k \in 1..(i - 1) : k \in DOMAIN columns /\ k # i
    BY <1>1
  <2> QED BY <2>1
<1>5. \A j \in DOMAIN columns : First(j) => j = i
  OBVIOUS
<1> HIDE DEF First
<1> QED BY <1>3, <1>4, <1>5

\* What the loader makes of a file.
LEMMA ColumnsAre ==
  ASSUME NEW C, NEW f \in Seq(C)
  PROVE  IF TwoLines(f) THEN S!Columns(f) = S!NoSchema
         ELSE /\ ToSet(S!Columns(f)) = NamesOf(f) /\ S!Columns(f) \in Seq(Seq(C))
              /\ \A i \in DOMAIN S!Columns(f) : S!FindColumn(S!Columns(f), S!Columns(f)[i]) = i
<1> DEFINE lines == S!Lines(f)
           N == Len(lines)
           st == S!Load(lines)
<1>1. lines \in Seq(Seq(C)) /\ N \in Nat
  <2>1. lines \in Seq(Seq(C))
    BY LinesAre
  <2> HIDE DEF lines
  <2> QED BY <2>1, LenProperties
<1>2. PICK o : Orders(f, 1, lines, o)
  BY LinesAre
<1>3. Starts(f) \subseteq 1..Len(f) /\ StartsFrom(f, 1) = Starts(f)
  <2>1. Starts(f) \subseteq 1..Len(f)
    BY StartsTyped
  <2> QED BY <2>1, LenProperties DEF StartsFrom
<1> HIDE DEF lines
<1>4. /\ o \in [1..N -> Starts(f)]
      /\ \A j, k \in 1..N : o[j] = o[k] => j = k
      /\ \A j \in Starts(f) : \E k \in 1..N : o[k] = j
      /\ \A k \in 1..N : lines[k] = ReadLine(f, o[k])
  BY <1>2, <1>3 DEF Orders
<1> DEFINE names == [k \in 1..Len(lines) |-> NameOf(f, o[k])]
<1>5. names \in [1..Len(lines) -> Seq(C)] /\ \A k \in 1..Len(lines) : S!Trim(lines[k]) = names[k]
  <2>1. \A k \in 1..Len(lines) : NameOf(f, o[k]) \in Seq(C) /\ S!Trim(lines[k]) = NameOf(f, o[k])
    BY <1>3, <1>4, NameOfLine DEF NameOf
  <2> QED BY <2>1
<1>6. \A k \in 1..N : names[k] = NameOf(f, o[k])
  OBVIOUS
<1> HIDE DEF names
<1>7. st \in Loads(C) /\ LoadedIs(st, names, N)
  BY <1>1, <1>5, LoadIs
<1>8. S!Columns(f) = IF st.duplicate THEN S!NoSchema ELSE st.columns
  BY DEF S!Columns, lines
<1> HIDE DEF st, N
<1>9. NamesKept(names, N) = NamesOf(f)
  BY <1>4, <1>6 DEF NamesKept, NamesOf
<1>10. (\E j, k \in 1..N : Repeats(names, j, k)) <=> TwoLines(f)
  <2>1. ASSUME NEW j \in 1..N, NEW k \in 1..N, Repeats(names, j, k) PROVE TwoLines(f)
    <3>1. o[j] \in Starts(f) /\ o[k] \in Starts(f) /\ o[j] # o[k]
      BY <1>4, <2>1 DEF Repeats
    <3>2. NameOf(f, o[j]) # <<>> /\ NameOf(f, o[j]) = NameOf(f, o[k])
      BY <1>6, <2>1 DEF Repeats
    <3> QED BY <3>1, <3>2 DEF TwoLines
  <2>2. ASSUME TwoLines(f) PROVE \E j, k \in 1..N : Repeats(names, j, k)
    <3>1. PICK i \in Starts(f), m \in Starts(f) :
             i # m /\ NameOf(f, i) # <<>> /\ NameOf(f, i) = NameOf(f, m)
      BY <2>2 DEF TwoLines
    <3>2. PICK j \in 1..N : o[j] = i
      BY <1>4
    <3>3. PICK k \in 1..N : o[k] = m
      BY <1>4
    <3>4. Repeats(names, j, k)
      BY <1>6, <3>1, <3>2, <3>3 DEF Repeats
    <3> QED BY <3>4
  <2> QED BY <2>1, <2>2
<1>11. CASE TwoLines(f)
  BY <1>7, <1>8, <1>10, <1>11 DEF LoadedIs
<1>12. CASE ~TwoLines(f)
  <2> DEFINE columns == S!Columns(f)
  <2>1. /\ columns = st.columns /\ ToSet(columns) = NamesOf(f)
        /\ \A j, k \in DOMAIN columns : columns[j] = columns[k] => j = k
    BY <1>7, <1>8, <1>9, <1>10, <1>12 DEF LoadedIs
  <2>2. columns \in Seq(Seq(C))
    BY <1>7, <2>1 DEF Loads
  <2> HIDE DEF columns
  <2>3. \A i \in DOMAIN columns : S!FindColumn(columns, columns[i]) = i
    BY <2>1, <2>2, ColumnFound
  <2> QED BY <1>12, <2>1, <2>2, <2>3 DEF columns
<1> QED BY <1>11, <1>12

\* A schema is loaded exactly when its file names a column and none twice, and then with
\* those columns, each found at its own place (load_table_schema, schema_find_column_index):
\* for every text over any alphabet, of any length.
THEOREM SchemasAreTheirNames == TextSpec => []SchemaReadsNames
<1>1. TextTyped => SchemaReadsNames
  <2> SUFFICES ASSUME TextTyped, reader = "schema" PROVE SchemaReadsNames
    BY DEF SchemaReadsNames
  <2> DEFINE C == Alphabet["schema"]
             columns == S!Columns(text)
  <2>1. text \in Seq(C)
    BY DEF TextTyped
  <2>2. /\ S!Names(text) = NamesOf(text)
        /\ Cardinality(S!NamePlaces(text)) > Cardinality(S!Names(text)) <=> TwoLines(text)
    BY <2>1, NamesAre, NamesCounted
  <2>3. IF TwoLines(text) THEN columns = S!NoSchema
        ELSE /\ ToSet(columns) = NamesOf(text) /\ columns \in Seq(Seq(C))
             /\ \A i \in DOMAIN columns : S!FindColumn(columns, columns[i]) = i
    BY <2>1, ColumnsAre
  <2> HIDE DEF columns
  <2>4. columns \in Seq(Seq(C)) => (ToSet(columns) = {} <=> columns = S!NoSchema)
    <3> DEFINE A == Seq(C)
    <3> HIDE DEF A
    <3>1. columns \in Seq(A) => (ToSet(columns) = {} <=> columns = <<>>)
      <4> SUFFICES ASSUME columns \in Seq(A) PROVE ToSet(columns) = {} <=> columns = <<>>
        OBVIOUS
      <4>1. DOMAIN columns = {} <=> columns = <<>>
        BY LenProperties, EmptySeq
      <4> QED BY <4>1 DEF ToSet
    <3> QED BY <3>1 DEF A, S!NoSchema
  <2> QED BY <2>2, <2>3, <2>4 DEF SchemaReadsNames, columns
<1> QED BY <1>1, TextIsTyped, PTL

-----------------------------------------------------------------------------
(* tokenize_sql.                                                           *)

\* The quote, the dot, the minus and the end of the string are four characters.
LEMMA Marks ==
  /\ L!Quote # L!Dot /\ L!Quote # L!Minus /\ L!Dot # L!Minus
  /\ L!Quote # "end" /\ L!Dot # "end" /\ L!Minus # "end"
BY DEF L!Quote, L!Dot, L!Minus

\* A character is of one class only.
LEMMA Classes ==
  /\ \A c \in Letters : c \notin Digits /\ c \notin Spaces /\ c \notin Symbols
  /\ \A c \in Digits : c \notin Letters /\ c \notin Spaces /\ c \notin Symbols
  /\ \A c \in Symbols : c \notin Letters /\ c \notin Digits /\ c \notin Spaces
  /\ \A c \in Letters \cup Digits \cup Spaces \cup Symbols :
        c # L!Quote /\ c # L!Dot /\ c # L!Minus /\ c # "end"
BY ClassesAssumption

\* At reads the text, and the end of the string outside it.
LEMMA AtIs ==
  ASSUME NEW C, NEW t \in Seq(C), NEW i
  PROVE  /\ i \in 1..Len(t) => L!At(t, i) = t[i]
         /\ i \notin 1..Len(t) => L!At(t, i) = "end"
<1>1. DOMAIN t = 1..Len(t)
  BY LenProperties
<1> QED BY <1>1 DEF L!At

-----------------------------------------------------------------------------
(* The lexer: runs of characters.                                          *)

\* From i up to before j stand chars, at j does not.
ClassRun(t, i, chars, j) ==
    /\ j \in i..(Len(t) + 1) /\ L!At(t, j) \notin chars
    /\ \A k \in i..(j - 1) : t[k] \in chars

\* RunEnd is where such a run ends.
LEMMA RunEndIs ==
  ASSUME NEW C, NEW t \in Seq(C), NEW i \in 1..(Len(t) + 1), NEW chars, "end" \notin chars
  PROVE  ClassRun(t, i, chars, L!RunEnd(t, i, chars))
<1> DEFINE N == Len(t)
           In(k) == L!At(t, k) \in chars
           Stop(j) == ~In(j) /\ \A k \in i..(j - 1) : t[k] \in chars
           T == {j \in i..(N + 1) : ~In(j)}
<1>1. N \in Nat /\ i \in 1..(N + 1)
  BY LenProperties
<1>2. ~In(N + 1)
  <2>1. N + 1 \notin 1..N
    BY <1>1
  <2>2. L!At(t, N + 1) = "end"
    BY <2>1, AtIs
  <2> QED BY <2>2
<1>3. \A k \in 1..N : t[k] \in chars <=> In(k)
  BY AtIs
<1>4. L!RunEnd(t, i, chars) = CHOOSE j \in i..(N + 1) : Stop(j)
  BY DEF L!RunEnd
<1> HIDE DEF In, N
<1>5. N + 1 \in T /\ T \in SUBSET Nat
  BY <1>1, <1>2
<1>6. PICK j \in T : \A k \in T : j <= k
  BY <1>5, LeastExists
<1>7. ASSUME NEW k \in i..(j - 1) PROVE t[k] \in chars
  <2>1. k \in i..(N + 1) /\ ~(j <= k) /\ k \in 1..N
    BY <1>1
  <2>2. In(k)
    BY <1>6, <2>1
  <2> QED BY <1>3, <2>1, <2>2
<1>8. j \in i..(N + 1) /\ Stop(j)
  BY <1>7
<1> DEFINE found == CHOOSE m \in i..(N + 1) : Stop(m)
<1>9. found \in i..(N + 1) /\ Stop(found)
  <2> HIDE DEF Stop
  <2> QED BY <1>8
<1> QED BY <1>4, <1>9 DEF ClassRun, In, N

\* The characters from i to j as a sequence of their own.
PartIs(t, i, j, s) ==
    /\ Len(s) = j - i + 1 /\ DOMAIN s = 1..(j - i + 1) /\ s # <<>>
    /\ \A k \in 1..(j - i + 1) : s[k] = t[i + k - 1]
    /\ s[1] = t[i] /\ L!Last(s) = t[j]
    /\ \A X : L!ToSet(s) \subseteq X <=> \A k \in i..j : t[k] \in X

\* A part of the text has the characters of its places.
LEMMA PartOfText ==
  ASSUME NEW C, NEW t \in Seq(C), NEW i \in 1..Len(t), NEW j \in i..Len(t)
  PROVE  SubSeq(t, i, j) \in Seq(C) /\ PartIs(t, i, j, SubSeq(t, i, j))
<1> DEFINE s == SubSeq(t, i, j)
           n == j - i + 1
           N == Len(t)
<1>1. N \in Nat /\ i \in 1..N /\ j \in i..N
  BY LenProperties
<1> HIDE DEF N
<1>2. n \in Nat /\ n > 0 /\ i \in Nat /\ j \in Nat /\ 1 <= i /\ i <= j /\ j <= N
  BY <1>1
<1>3. s \in Seq(C) /\ Len(s) = n /\ \A k \in 1..n : s[k] = t[i + k - 1]
  <2>1. /\ SubSeq(t, i, j) \in Seq(C)
        /\ Len(SubSeq(t, i, j)) = IF i <= j THEN j - i + 1 ELSE 0
        /\ \A k \in 1..(j - i + 1) : SubSeq(t, i, j)[k] = t[i + k - 1]
    BY <1>2, SubSeqTyped DEF N
  <2> QED BY <1>2, <2>1
<1>4. DOMAIN s = 1..n
  BY <1>3, LenProperties
<1>5. s # <<>>
  BY <1>2, <1>3
<1> HIDE DEF s, n
<1>6. 1 \in 1..n /\ n \in 1..n /\ i + 1 - 1 = i /\ i + n - 1 = j
  BY <1>1, <1>2 DEF n
<1>7. s[1] = t[i]
  BY <1>3, <1>6
<1>8. L!Last(s) = t[j]
  BY <1>3, <1>6 DEF L!Last
<1>9. ASSUME NEW X PROVE L!ToSet(s) \subseteq X <=> \A k \in i..j : t[k] \in X
  <2>1. ASSUME NEW k \in i..j PROVE t[k] \in L!ToSet(s)
    <3>1. k - i + 1 \in 1..n /\ i + (k - i + 1) - 1 = k
      BY <1>1 DEF n
    <3> QED BY <1>3, <1>4, <3>1 DEF L!ToSet
  <2>2. ASSUME NEW k \in 1..n PROVE i + k - 1 \in i..j
    BY <1>1 DEF n
  <2>3. L!ToSet(s) = {s[k] : k \in 1..n}
    BY <1>4 DEF L!ToSet
  <2> QED BY <1>3, <2>1, <2>2, <2>3
<1> QED BY <1>3, <1>4, <1>5, <1>7, <1>8, <1>9 DEF PartIs, n, s

\* A part without its first character is a part.
LEMMA TailOfPart ==
  ASSUME NEW C, NEW t \in Seq(C), NEW i \in 1..Len(t), NEW j \in (i + 1)..Len(t)
  PROVE  Tail(SubSeq(t, i, j)) = SubSeq(t, i + 1, j)
<1> DEFINE s == SubSeq(t, i, j)
           r == SubSeq(t, i + 1, j)
           n == j - i
<1>1. Len(t) \in Nat /\ i \in Int /\ j \in Int
  BY LenProperties
<1>2. j \in i..Len(t) /\ i + 1 \in 1..Len(t) /\ n \in Nat
  BY <1>1
<1>3. s \in Seq(C) /\ Len(s) = n + 1 /\ s # <<>> /\ \A k \in 1..(n + 1) : s[k] = t[i + k - 1]
  BY <1>1, <1>2, PartOfText DEF PartIs
<1>4. r \in Seq(C) /\ Len(r) = n /\ \A k \in 1..n : r[k] = t[(i + 1) + k - 1]
  <2>1. r \in Seq(C) /\ PartIs(t, i + 1, j, r)
    BY <1>2, PartOfText
  <2>2. j - (i + 1) + 1 = n
    BY <1>1
  <2> QED BY <2>1, <2>2 DEF PartIs
<1> HIDE DEF s, r, n
<1>5. /\ Tail(s) \in Seq(C) /\ Len(Tail(s)) = Len(s) - 1
      /\ \A k \in 1..(Len(s) - 1) : Tail(s)[k] = s[k + 1]
  BY <1>3, HeadTailProperties
<1>6. Len(s) - 1 = n
  BY <1>2, <1>3
<1>7. ASSUME NEW k \in 1..n PROVE Tail(s)[k] = r[k]
  <2>1. k + 1 \in 1..(n + 1) /\ i + (k + 1) - 1 = (i + 1) + k - 1
    BY <1>1, <1>2
  <2> QED BY <1>3, <1>4, <1>5, <1>6, <2>1
<1>8. Tail(s) = r
  BY <1>4, <1>5, <1>6, <1>7, SeqEqual
<1> QED BY <1>8 DEF s, r

\* The lexeme that ends before e is the longest of those that start at i.
Longest(t, i, e) ==
    e - 1 \in L!LexemeEnds(t, i) /\ \A j \in L!LexemeEnds(t, i) : j <= e - 1

\* LexemeEnds has the places where what began at i is a lexeme.
LEMMA EndsAre ==
  ASSUME NEW C, NEW t \in Seq(C), NEW i \in 1..Len(t)
  PROVE  \A j : j \in L!LexemeEnds(t, i) <=> j \in i..Len(t) /\ L!IsLexeme(SubSeq(t, i, j))
BY DEF L!LexemeEnds

-----------------------------------------------------------------------------
(* Numbers.                                                                *)

\* The first digit of a number.
FirstDigit(t, i) == IF t[i] = L!Minus THEN i + 1 ELSE i

\* From d to j stand digits, with at most one dot between two of them.
NumberIn(t, d, j) ==
    /\ d <= j /\ t[d] \in Digits /\ t[j] \in Digits
    /\ \A k \in d..j : t[k] \in Digits \cup {L!Dot}
    /\ \A p, q \in d..j : t[p] = L!Dot /\ t[q] = L!Dot => p = q

\* A set of at most one element, said without counting.
LEMMA AtMostOne ==
  ASSUME NEW T, IsFiniteSet(T)
  PROVE  Cardinality(T) <= 1 <=> \A p, q \in T : p = q
<1>1. Cardinality(T) \in Nat
  BY FS_CardinalityType
<1>2. ASSUME NEW p \in T, NEW q \in T, p # q PROVE ~(Cardinality(T) <= 1)
  <2>1. IsFiniteSet({q}) /\ Cardinality({q}) = 1
    BY FS_Singleton
  <2>2. Cardinality({q} \cup {p}) = 2
    BY <1>2, <2>1, FS_AddElement
  <2>3. Cardinality({q} \cup {p}) <= Cardinality(T)
    <3>1. {q} \cup {p} \subseteq T
      OBVIOUS
    <3> QED BY <3>1, FS_Subset
  <2> QED BY <1>1, <2>2, <2>3
<1>3. ASSUME \A p, q \in T : p = q PROVE Cardinality(T) <= 1
  <2>1. CASE T = {}
    BY <2>1, FS_EmptySet
  <2>2. CASE T # {}
    <3>1. PICK p \in T : T = {p}
      BY <1>3, <2>2
    <3>2. Cardinality({p}) = 1
      BY FS_Singleton
    <3>3. Cardinality(T) = 1
      BY <3>1, <3>2
    <3> QED BY <3>3
  <2> QED BY <2>1, <2>2
<1> QED BY <1>2, <1>3

\* What IsNumber asks of the digits and the dot.
Unsigned(body) ==
    /\ body # <<>> /\ L!ToSet(body) \subseteq Digits \cup {L!Dot}
    /\ body[1] \in Digits /\ L!Last(body) \in Digits /\ L!Count(body, L!Dot) <= 1

\* A part is an unsigned number as NumberIn has it.
LEMMA UnsignedIs ==
  ASSUME NEW C, NEW t \in Seq(C), NEW d \in 1..Len(t), NEW j \in d..Len(t)
  PROVE  Unsigned(SubSeq(t, d, j)) <=> NumberIn(t, d, j)
<1> DEFINE s == SubSeq(t, d, j)
           n == j - d + 1
           Dots == {k \in 1..n : s[k] = L!Dot}
<1>1. d \in Int /\ j \in Int /\ d <= j
  BY LenProperties
<1>2. PartIs(t, d, j, s)
  BY PartOfText
<1> HIDE DEF s
<1>3. n \in Nat
  BY <1>1
<1>4. IsFiniteSet(Dots)
  <2>1. IsFiniteSet(1..n) /\ Dots \subseteq 1..n
    BY <1>3, FS_Interval
  <2> QED BY <2>1, FS_Subset
<1>5. L!Count(s, L!Dot) <= 1 <=> \A p, q \in Dots : p = q
  <2>1. {k \in DOMAIN s : s[k] = L!Dot} = Dots
    BY <1>2 DEF PartIs
  <2>2. L!Count(s, L!Dot) = Cardinality(Dots)
    BY <2>1 DEF L!Count, L!Cardinality, Cardinality
  <2> HIDE DEF Dots
  <2> QED BY <1>4, <2>2, AtMostOne
<1>6. \A k \in d..j : k - d + 1 \in 1..n /\ s[k - d + 1] = t[k]
  <2>1. \A k \in d..j : k - d + 1 \in 1..n /\ d + (k - d + 1) - 1 = k
    BY <1>1
  <2> QED BY <1>2, <2>1 DEF PartIs
<1>7. \A k \in 1..n : d + k - 1 \in d..j /\ s[k] = t[d + k - 1]
  <2>1. \A k \in 1..n : d + k - 1 \in d..j
    BY <1>1
  <2> QED BY <1>2, <2>1 DEF PartIs
<1>8. (\A p, q \in Dots : p = q)
        <=> \A p, q \in d..j : t[p] = L!Dot /\ t[q] = L!Dot => p = q
  <2>1. ASSUME \A p, q \in Dots : p = q, NEW p \in d..j, NEW q \in d..j,
               t[p] = L!Dot, t[q] = L!Dot
        PROVE  p = q
    <3>1. p - d + 1 \in Dots /\ q - d + 1 \in Dots
      BY <1>6, <2>1
    <3>2. p - d + 1 = q - d + 1
      BY <2>1, <3>1
    <3> QED BY <1>1, <3>2
  <2>2. ASSUME \A p, q \in d..j : t[p] = L!Dot /\ t[q] = L!Dot => p = q,
               NEW p \in Dots, NEW q \in Dots
        PROVE  p = q
    <3>1. d + p - 1 = d + q - 1
      BY <1>7, <2>2
    <3> QED BY <1>1, <3>1
  <2> QED BY <2>1, <2>2
<1> HIDE DEF Dots
<1>9. Unsigned(s) <=> /\ \A k \in d..j : t[k] \in Digits \cup {L!Dot}
                      /\ t[d] \in Digits /\ t[j] \in Digits
                      /\ L!Count(s, L!Dot) <= 1
  BY <1>2 DEF Unsigned, PartIs
<1> QED BY <1>1, <1>5, <1>8, <1>9 DEF NumberIn, s

\* A part is a number as NumberIn has it, behind a minus or without one.
LEMMA NumberIs ==
  ASSUME NEW C, NEW t \in Seq(C), NEW i \in 1..Len(t), NEW j \in i..Len(t)
  PROVE  L!IsNumber(SubSeq(t, i, j)) <=> NumberIn(t, FirstDigit(t, i), j)
<1> DEFINE s == SubSeq(t, i, j)
<1>1. i \in Int /\ j \in Int /\ i <= j /\ Len(t) \in Nat
  BY LenProperties
<1>2. PartIs(t, i, j, s) /\ s \in Seq(C)
  BY PartOfText
<1>3. L!IsNumber(s) <=> \E body \in {s} \cup (IF s # <<>> /\ s[1] = L!Minus THEN {Tail(s)} ELSE {}) :
                            Unsigned(body)
  BY DEF L!IsNumber, Unsigned
<1>4. s # <<>> /\ s[1] = t[i]
  BY <1>2 DEF PartIs
<1>5. Unsigned(s) <=> NumberIn(t, i, j)
  BY UnsignedIs
<1>6. CASE t[i] # L!Minus
  <2>1. L!IsNumber(s) <=> Unsigned(s)
    <3> HIDE DEF s
    <3> QED BY <1>3, <1>4, <1>6
  <2> QED BY <1>5, <1>6, <2>1 DEF FirstDigit
<1>7. CASE t[i] = L!Minus
  <2>1. ~Unsigned(s)
    <3>1. L!Minus \notin Digits
      BY ClassesAssumption
    <3> QED BY <1>4, <1>7, <3>1 DEF Unsigned
  <2>2. L!IsNumber(s) <=> Unsigned(Tail(s))
    <3> HIDE DEF s
    <3> QED BY <1>3, <1>4, <1>7, <2>1
  <2>3. CASE i = j
    <3>1. Tail(s) = <<>>
      <4>1. Len(s) = 1
        BY <1>1, <1>2, <2>3 DEF PartIs
      <4>2. Tail(s) \in Seq(C) /\ Len(Tail(s)) = Len(s) - 1
        BY <1>2, <1>4, HeadTailProperties
      <4> HIDE DEF s
      <4>3. Len(Tail(s)) = 0
        BY <4>1, <4>2
      <4> QED BY <4>2, <4>3, EmptySeq
    <3>2. ~Unsigned(Tail(s)) /\ ~(i + 1 <= j)
      BY <1>1, <2>3, <3>1 DEF Unsigned
    <3> QED BY <1>7, <2>2, <3>2 DEF NumberIn, FirstDigit
  <2>4. CASE i # j
    <3>1. i + 1 \in 1..Len(t) /\ j \in (i + 1)..Len(t)
      BY <1>1, <2>4
    <3>2. Tail(s) = SubSeq(t, i + 1, j)
      BY <1>1, <1>2, <1>4, <3>1, TailOfPart
    <3>3. Unsigned(Tail(s)) <=> NumberIn(t, i + 1, j)
      BY <3>1, <3>2, UnsignedIs
    <3> QED BY <1>7, <2>2, <3>3 DEF FirstDigit
  <2> QED BY <2>3, <2>4
<1> QED BY <1>6, <1>7

-----------------------------------------------------------------------------
(* The lexer: runs of quotes.                                              *)

-----------------------------------------------------------------------------
(* Strings: quotes come in pairs.                                          *)

\* n quotes end at k, counted from a on.
RunTo(t, a, k, n) ==
    /\ n \in 0..(k - a + 1) /\ \A m \in (k - n + 1)..k : t[m] = L!Quote
    /\ n = k - a + 1 \/ t[k - n] # L!Quote

\* An odd run of quotes ends at k.
OddAt(t, a, k) == \E n : RunTo(t, a, k, n) /\ n % 2 = 1

\* The length of the run that ends at k is one number.
LEMMA RunToIs ==
  ASSUME NEW t, NEW a \in Nat, NEW k \in Int, k >= a - 1
  PROVE  /\ \E n : RunTo(t, a, k, n)
         /\ \A n, m : RunTo(t, a, k, n) /\ RunTo(t, a, k, m) => n = m
<1> DEFINE w == k - a + 1
           T == {n \in 0..w : \A m \in (k - n + 1)..k : t[m] = L!Quote}
<1>1. w \in Nat
  OBVIOUS
<1>2. \E n : RunTo(t, a, k, n)
  <2>1. 0 \in T
    <3>1. 0 \in 0..w /\ (k - 0 + 1)..k = {}
      BY <1>1
    <3> QED BY <3>1
  <2>2. T \in SUBSET (0..w)
    OBVIOUS
  <2>3. PICK n \in T : \A m \in T : m <= n
    <3> HIDE DEF T, w
    <3> QED BY <1>1, <2>1, <2>2, LargestExists
  <2>4. n = w \/ t[k - n] # L!Quote
    <3> SUFFICES ASSUME n # w, t[k - n] = L!Quote PROVE FALSE
      OBVIOUS
    <3>1. n + 1 \in 0..w
      BY <1>1, <2>2
    <3>2. \A m \in (k - (n + 1) + 1)..k : m = k - n \/ m \in (k - n + 1)..k
      BY <1>1, <2>2
    <3>3. \A m \in (k - (n + 1) + 1)..k : t[m] = L!Quote
      BY <3>2
    <3>4. n + 1 \in T
      BY <3>1, <3>3
    <3> QED BY <2>2, <2>3, <3>4
  <2> QED BY <2>4 DEF RunTo
<1>3. ASSUME NEW n, NEW m, RunTo(t, a, k, n), RunTo(t, a, k, m), n < m PROVE FALSE
  <2>1. n \in 0..w /\ m \in 0..w /\ n # w
    BY <1>1, <1>3 DEF RunTo
  <2>2. k - n \in (k - m + 1)..k
    BY <1>1, <1>3, <2>1
  <2> QED BY <1>3, <2>1, <2>2 DEF RunTo
<1>4. \A n, m : RunTo(t, a, k, n) /\ RunTo(t, a, k, m) => n \in Int /\ m \in Int
  BY DEF RunTo
<1> QED BY <1>2, <1>3, <1>4

\* A run is odd at k exactly if k is a quote and the run before it is not odd.
LEMMA OddStep ==
  ASSUME NEW t, NEW a \in Nat
  PROVE  /\ ~OddAt(t, a, a - 1)
         /\ \A k \in Int : k >= a => (OddAt(t, a, k) <=> t[k] = L!Quote /\ ~OddAt(t, a, k - 1))
<1>1. ~OddAt(t, a, a - 1)
  <2> SUFFICES ASSUME NEW n, RunTo(t, a, a - 1, n), n % 2 = 1 PROVE FALSE
    BY DEF OddAt
  <2>1. n = 0
    BY DEF RunTo
  <2> QED BY <2>1
<1>2. ASSUME NEW k \in Int, k >= a
      PROVE  OddAt(t, a, k) <=> t[k] = L!Quote /\ ~OddAt(t, a, k - 1)
  <2>1. PICK n : RunTo(t, a, k - 1, n)
    BY <1>2, RunToIs
  <2>2. n \in 0..(k - a) /\ n \in Nat
    BY <1>2, <2>1 DEF RunTo
  <2>3. OddAt(t, a, k - 1) <=> n % 2 = 1
    <3>1. \A m : RunTo(t, a, k - 1, m) => m = n
      BY <1>2, <2>1, RunToIs
    <3> QED BY <2>1, <3>1 DEF OddAt
  <2>4. CASE t[k] = L!Quote
    <3>1. RunTo(t, a, k, n + 1)
      <4>1. n + 1 \in 0..(k - a + 1)
        BY <1>2, <2>2
      <4>2. \A m \in (k - (n + 1) + 1)..k : m = k \/ m \in ((k - 1) - n + 1)..(k - 1)
        BY <1>2, <2>2
      <4>3. \A m \in (k - (n + 1) + 1)..k : t[m] = L!Quote
        BY <2>1, <2>4, <4>2 DEF RunTo
      <4>4. n = (k - 1) - a + 1 => n + 1 = k - a + 1
        BY <1>2, <2>2
      <4>5. (k - 1) - n = k - (n + 1)
        BY <1>2, <2>2
      <4>6. n + 1 = k - a + 1 \/ t[k - (n + 1)] # L!Quote
        BY <2>1, <4>4, <4>5 DEF RunTo
      <4> QED BY <4>1, <4>3, <4>6 DEF RunTo
    <3>2. \A m : RunTo(t, a, k, m) => m = n + 1
      <4>1. k >= a - 1
        BY <1>2
      <4> QED BY <3>1, <4>1, RunToIs
    <3>3. OddAt(t, a, k) <=> (n + 1) % 2 = 1
      BY <3>1, <3>2 DEF OddAt
    <3>4. (n + 1) % 2 = 1 <=> ~(n % 2 = 1)
      BY <2>2
    <3> QED BY <2>3, <2>4, <3>3, <3>4
  <2>5. CASE t[k] # L!Quote
    <3> SUFFICES ASSUME NEW m, RunTo(t, a, k, m), m % 2 = 1 PROVE FALSE
      BY <2>5 DEF OddAt
    <3>1. m \in 0..(k - a + 1) /\ m # 0
      BY <1>2 DEF RunTo
    <3>2. k \in (k - m + 1)..k
      BY <1>2, <3>1
    <3> QED BY <2>5, <3>2 DEF RunTo
  <2> QED BY <2>4, <2>5
<1> QED BY <1>1, <1>2

\* Every run of quotes from a to b is one of pairs.
EvenRuns(t, a, b) == \A k \in a..b : OddAt(t, a, k) => k < b /\ t[k + 1] = L!Quote

\* How a text of paired quotes grows: by another character, or by a pair.
LEMMA EvenGrows ==
  ASSUME NEW t, NEW a \in Nat, NEW j \in Int, j >= a, EvenRuns(t, a, j - 1)
  PROVE  /\ ~OddAt(t, a, j - 1)
         /\ t[j] # L!Quote => EvenRuns(t, a, j)
         /\ t[j] = L!Quote => OddAt(t, a, j)
         /\ t[j] = L!Quote /\ t[j + 1] = L!Quote => EvenRuns(t, a, j + 1)
<1>1. ~OddAt(t, a, j - 1)
  <2>1. CASE j = a
    BY <2>1, OddStep
  <2>2. CASE j # a
    <3>1. j - 1 \in a..(j - 1) /\ ~(j - 1 < j - 1)
      BY <2>2
    <3> QED BY <3>1 DEF EvenRuns
  <2> QED BY <2>1, <2>2
<1>2. OddAt(t, a, j) <=> t[j] = L!Quote
  BY <1>1, OddStep
<1>3. ASSUME NEW k \in a..(j - 1), OddAt(t, a, k) PROVE k < j - 1 /\ t[k + 1] = L!Quote
  BY <1>3 DEF EvenRuns
<1>4. ASSUME t[j] # L!Quote PROVE EvenRuns(t, a, j)
  <2> SUFFICES ASSUME NEW k \in a..j, OddAt(t, a, k) PROVE k < j /\ t[k + 1] = L!Quote
    BY DEF EvenRuns
  <2>1. k # j
    BY <1>2, <1>4
  <2>2. k \in a..(j - 1)
    BY <2>1
  <2> QED BY <1>3, <2>2
<1>5. ASSUME t[j] = L!Quote, t[j + 1] = L!Quote PROVE EvenRuns(t, a, j + 1)
  <2> SUFFICES ASSUME NEW k \in a..(j + 1), OddAt(t, a, k)
               PROVE  k < j + 1 /\ t[k + 1] = L!Quote
    BY DEF EvenRuns
  <2>1. ~OddAt(t, a, j + 1)
    <3>1. j + 1 >= a /\ j + 1 \in Int /\ (j + 1) - 1 = j
      OBVIOUS
    <3>2. OddAt(t, a, j + 1) <=> t[j + 1] = L!Quote /\ ~OddAt(t, a, j)
      BY <3>1, OddStep
    <3> QED BY <1>2, <1>5, <3>2
  <2>2. CASE k = j
    BY <1>5, <2>2
  <2>3. CASE k # j
    <3>1. k \in a..(j - 1)
      <4>1. k # j + 1
        BY <2>1
      <4> QED BY <2>3, <4>1
    <3>2. k < j - 1 /\ t[k + 1] = L!Quote
      BY <1>3, <3>1
    <3> QED BY <3>1, <3>2
  <2> QED BY <2>2, <2>3
<1> QED BY <1>1, <1>2, <1>4, <1>5

\* The same, said of runs that cannot be made longer.
WholeRunsEven(t, a, b) ==
    \A p, q \in a..b :
        /\ p <= q /\ \A k \in p..q : t[k] = L!Quote
        /\ p = a \/ t[p - 1] # L!Quote
        /\ q = b \/ t[q + 1] # L!Quote
        => (q - p) % 2 = 1

\* The two ways to say that quotes are paired agree.
LEMMA RunsAreEven ==
  ASSUME NEW t, NEW a \in Nat, NEW b \in Int
  PROVE  WholeRunsEven(t, a, b) <=> EvenRuns(t, a, b)
<1>1. ASSUME WholeRunsEven(t, a, b) PROVE EvenRuns(t, a, b)
  <2> SUFFICES ASSUME NEW k \in a..b, OddAt(t, a, k), ~(k < b /\ t[k + 1] = L!Quote) PROVE FALSE
    BY DEF EvenRuns
  <2>1. PICK n : RunTo(t, a, k, n) /\ n % 2 = 1
    BY DEF OddAt
  <2> DEFINE p == k - n + 1
  <2>2. n \in 0..(k - a + 1) /\ n # 0 /\ k \in Int
    BY <2>1 DEF RunTo
  <2>3. p \in a..b /\ p <= k
    BY <2>2
  <2>4. \A m \in p..k : t[m] = L!Quote
    BY <2>1 DEF RunTo
  <2>5. p = a \/ t[p - 1] # L!Quote
    <3>1. p - 1 = k - n /\ (n = k - a + 1 => p = a)
      BY <2>2
    <3> QED BY <2>1, <3>1 DEF RunTo
  <2>6. k = b \/ t[k + 1] # L!Quote
    OBVIOUS
  <2> HIDE DEF p
  <2>7. (k - p) % 2 = 1
    BY <1>1, <2>3, <2>4, <2>5, <2>6 DEF WholeRunsEven
  <2>8. k - p = n - 1
    BY <2>2 DEF p
  <2> QED BY <2>1, <2>2, <2>7, <2>8
<1>2. ASSUME EvenRuns(t, a, b) PROVE WholeRunsEven(t, a, b)
  <2> SUFFICES ASSUME NEW p \in a..b, NEW q \in a..b, p <= q, \A k \in p..q : t[k] = L!Quote,
                      p = a \/ t[p - 1] # L!Quote, q = b \/ t[q + 1] # L!Quote
               PROVE  (q - p) % 2 = 1
    BY DEF WholeRunsEven
  <2> DEFINE n == q - p + 1
  <2>1. n \in 0..(q - a + 1) /\ q - n + 1 = p /\ q - n = p - 1 /\ (p = a => n = q - a + 1)
    OBVIOUS
  <2>2. RunTo(t, a, q, n)
    <3> HIDE DEF n
    <3> QED BY <2>1 DEF RunTo
  <2>3. ~(n % 2 = 1)
    <3> SUFFICES ASSUME n % 2 = 1 PROVE FALSE
      OBVIOUS
    <3> HIDE DEF n
    <3>1. OddAt(t, a, q)
      BY <2>2 DEF OddAt
    <3>2. q < b /\ t[q + 1] = L!Quote
      BY <1>2, <3>1 DEF EvenRuns
    <3> QED BY <3>2
  <2>4. q - p = n - 1 /\ n \in Nat
    OBVIOUS
  <2> HIDE DEF n
  <2> QED BY <2>3, <2>4
<1> QED BY <1>1, <1>2

\* A string stands from i to j.
StringIn(t, i, j) ==
    i < j /\ t[i] = L!Quote /\ t[j] = L!Quote /\ EvenRuns(t, i + 1, j - 1)

\* What IsString looks at is the text between the two quotes.
LEMMA InsideIs ==
  ASSUME NEW C, NEW t \in Seq(C), NEW i \in 1..Len(t), NEW j \in (i + 1)..Len(t)
  PROVE  LET inside == SubSeq(SubSeq(t, i, j), 2, Len(SubSeq(t, i, j)) - 1)
         IN /\ DOMAIN inside = 1..(j - i - 1)
            /\ \A p \in 1..(j - i - 1) : inside[p] = t[i + p] /\ L!At(inside, p) = t[i + p]
            /\ L!At(inside, 0) # L!Quote /\ L!At(inside, j - i) # L!Quote
<1> DEFINE s == SubSeq(t, i, j)
           b == Len(s) - 1
           inside == SubSeq(s, 2, b)
           m == j - i - 1
<1>1. i \in Int /\ j \in Int /\ i < j /\ Len(t) \in Nat
  BY LenProperties
<1>2. j \in i..Len(t)
  BY <1>1
<1>3. s \in Seq(C) /\ Len(s) = j - i + 1 /\ \A k \in 1..(j - i + 1) : s[k] = t[i + k - 1]
  BY <1>2, PartOfText DEF PartIs
<1> HIDE DEF s
<1>4. b = j - i /\ b \in Nat /\ b <= Len(s) /\ m \in Nat
  BY <1>1, <1>3
<1> HIDE DEF b
<1>5. /\ inside \in Seq(C) /\ Len(inside) = IF 2 <= b THEN b - 2 + 1 ELSE 0
      /\ \A k \in 1..(b - 2 + 1) : inside[k] = s[2 + k - 1]
  BY <1>3, <1>4, SubSeqTyped
<1>6. Len(inside) = m /\ b - 2 + 1 = m
  <2> HIDE DEF inside
  <2> QED BY <1>1, <1>4, <1>5
<1> HIDE DEF inside
<1>7. DOMAIN inside = 1..m
  BY <1>5, <1>6, LenProperties
<1>8. ASSUME NEW p \in 1..m PROVE inside[p] = t[i + p]
  <2>1. 2 + p - 1 \in 1..(j - i + 1) /\ i + (2 + p - 1) - 1 = i + p
    BY <1>1
  <2> QED BY <1>3, <1>5, <1>6, <2>1
<1>9. \A p \in 1..m : L!At(inside, p) = inside[p]
  BY <1>5, <1>6, AtIs
<1>10. 0 \notin 1..m /\ j - i \notin 1..m
  BY <1>1
<1>11. L!At(inside, 0) = "end" /\ L!At(inside, j - i) = "end"
  BY <1>5, <1>6, <1>10, AtIs
<1>12. L!At(inside, 0) # L!Quote /\ L!At(inside, j - i) # L!Quote
  BY <1>11, Marks
<1> QED BY <1>7, <1>8, <1>9, <1>12 DEF inside, b, s

\* A part is a string as StringIn has it.
LEMMA StringIs ==
  ASSUME NEW C, NEW t \in Seq(C), NEW i \in 1..Len(t), NEW j \in i..Len(t)
  PROVE  L!IsString(SubSeq(t, i, j)) <=> StringIn(t, i, j)
<1> DEFINE s == SubSeq(t, i, j)
           inside == SubSeq(s, 2, Len(s) - 1)
           m == j - i - 1
           a == i + 1
           b == j - 1
           Inside == \A p, q \in 1..m :
                        /\ p <= q /\ \A k \in p..q : inside[k] = L!Quote
                        /\ L!At(inside, p - 1) # L!Quote /\ L!At(inside, q + 1) # L!Quote
                        => (q - p) % 2 = 1
<1>1. i \in Int /\ j \in Int /\ i <= j /\ Len(t) \in Nat /\ i >= 1
  BY LenProperties
<1>2. PartIs(t, i, j, s)
  BY PartOfText
<1>3. CASE i = j
  <2>1. Len(s) = 1
    BY <1>1, <1>2, <1>3 DEF PartIs
  <2> HIDE DEF s
  <2>2. ~(Len(s) >= 2)
    BY <2>1
  <2>3. ~L!IsString(s)
    BY <2>2 DEF L!IsString
  <2> QED BY <1>1, <1>3, <2>3 DEF StringIn, s
<1>4. CASE i # j
  <2>1. j \in (i + 1)..Len(t)
    BY <1>1, <1>4
  <2>2. /\ DOMAIN inside = 1..m
        /\ \A p \in 1..m : inside[p] = t[i + p] /\ L!At(inside, p) = t[i + p]
        /\ L!At(inside, 0) # L!Quote /\ L!At(inside, j - i) # L!Quote
    BY <2>1, InsideIs
  <2>3. L!IsString(s) <=> t[i] = L!Quote /\ t[j] = L!Quote /\ Inside
    <3>1. Len(s) >= 2 /\ s[1] = t[i] /\ L!Last(s) = t[j]
      BY <1>1, <1>2, <2>1 DEF PartIs
    <3>2. L!IsString(s) <=> s[1] = L!Quote /\ L!Last(s) = L!Quote /\ Inside
      BY <2>2, <3>1 DEF L!IsString
    <3> QED BY <3>1, <3>2
  <2> HIDE DEF inside
  <2>4. ASSUME NEW p \in 1..m, NEW q \in 1..m, p <= q
        PROVE  /\ i + p \in a..b /\ i + q \in a..b
               /\ (\A k \in p..q : inside[k] = L!Quote) <=> \A k \in (i + p)..(i + q) : t[k] = L!Quote
               /\ L!At(inside, p - 1) # L!Quote <=> i + p = a \/ t[(i + p) - 1] # L!Quote
               /\ L!At(inside, q + 1) # L!Quote <=> i + q = b \/ t[(i + q) + 1] # L!Quote
               /\ (i + q) - (i + p) = q - p
    <3>1. i + p \in a..b /\ i + q \in a..b /\ (i + q) - (i + p) = q - p
      BY <1>1
    <3>2. (\A k \in p..q : inside[k] = L!Quote) <=> \A k \in (i + p)..(i + q) : t[k] = L!Quote
      <4>1. \A k \in p..q : k \in 1..m /\ i + k \in (i + p)..(i + q)
        BY <1>1
      <4>2. \A k \in (i + p)..(i + q) : k - i \in p..q /\ i + (k - i) = k
        BY <1>1
      <4> QED BY <2>2, <4>1, <4>2
    <3>3. L!At(inside, p - 1) # L!Quote <=> i + p = a \/ t[(i + p) - 1] # L!Quote
      <4>1. CASE p = 1
        BY <1>1, <2>2, <4>1
      <4>2. CASE p # 1
        <5>1. p - 1 \in 1..m /\ i + (p - 1) = (i + p) - 1 /\ i + p # a
          BY <1>1, <4>2
        <5> QED BY <2>2, <5>1
      <4> QED BY <4>1, <4>2
    <3>4. L!At(inside, q + 1) # L!Quote <=> i + q = b \/ t[(i + q) + 1] # L!Quote
      <4>1. CASE q = m
        <5>1. q + 1 = j - i /\ i + q = b
          BY <1>1, <4>1
        <5> QED BY <2>2, <5>1
      <4>2. CASE q # m
        <5>1. q + 1 \in 1..m /\ i + (q + 1) = (i + q) + 1 /\ i + q # b
          BY <1>1, <4>2
        <5> QED BY <2>2, <5>1
      <4> QED BY <4>1, <4>2
    <3> QED BY <3>1, <3>2, <3>3, <3>4
  <2>5. Inside <=> WholeRunsEven(t, a, b)
    <3>1. ASSUME WholeRunsEven(t, a, b) PROVE Inside
      <4> SUFFICES ASSUME NEW p \in 1..m, NEW q \in 1..m, p <= q, \A k \in p..q : inside[k] = L!Quote,
                          L!At(inside, p - 1) # L!Quote, L!At(inside, q + 1) # L!Quote
                   PROVE  (q - p) % 2 = 1
        OBVIOUS
      <4>1. i + p <= i + q
        BY <1>1
      <4>2. ((i + q) - (i + p)) % 2 = 1
        BY <2>4, <3>1, <4>1 DEF WholeRunsEven
      <4> QED BY <2>4, <4>2
    <3>2. ASSUME Inside PROVE WholeRunsEven(t, a, b)
      <4> SUFFICES ASSUME NEW x \in a..b, NEW y \in a..b, x <= y, \A k \in x..y : t[k] = L!Quote,
                          x = a \/ t[x - 1] # L!Quote, y = b \/ t[y + 1] # L!Quote
                   PROVE  (y - x) % 2 = 1
        BY DEF WholeRunsEven
      <4> DEFINE p == x - i
                 q == y - i
      <4>1. p \in 1..m /\ q \in 1..m /\ p <= q /\ i + p = x /\ i + q = y
        BY <1>1
      <4> HIDE DEF p, q
      <4>2. /\ \A k \in p..q : inside[k] = L!Quote
            /\ L!At(inside, p - 1) # L!Quote /\ L!At(inside, q + 1) # L!Quote
            /\ y - x = q - p
        BY <2>4, <4>1
      <4>3. (q - p) % 2 = 1
        BY <3>2, <4>1, <4>2
      <4> QED BY <4>2, <4>3
    <3> QED BY <3>1, <3>2
  <2>6. WholeRunsEven(t, a, b) <=> EvenRuns(t, a, b)
    <3>1. a \in Nat /\ b \in Int
      BY <1>1
    <3> QED BY <3>1, RunsAreEven
  <2>7. i < j
    BY <1>1, <1>4
  <2> HIDE DEF Inside
  <2> QED BY <2>3, <2>5, <2>6, <2>7 DEF StringIn
<1> QED BY <1>3, <1>4

\* What stands from i to j is a lexeme.
LEMMA LexemeIs ==
  ASSUME NEW C, NEW t \in Seq(C), NEW i \in 1..Len(t), NEW j \in i..Len(t)
  PROVE  L!IsLexeme(SubSeq(t, i, j)) <=>
            \/ t[i] \in Letters /\ \A k \in i..j : t[k] \in Letters \cup Digits
            \/ NumberIn(t, FirstDigit(t, i), j)
            \/ StringIn(t, i, j)
            \/ i = j /\ t[i] \in Symbols
<1> DEFINE s == SubSeq(t, i, j)
<1>1. PartIs(t, i, j, s)
  BY PartOfText
<1>2. L!IsNumber(s) <=> NumberIn(t, FirstDigit(t, i), j)
  BY NumberIs
<1>3. L!IsString(s) <=> StringIn(t, i, j)
  BY StringIs
<1> HIDE DEF s
<1>4. L!IsWord(s) <=> t[i] \in Letters /\ \A k \in i..j : t[k] \in Letters \cup Digits
  BY <1>1 DEF L!IsWord, PartIs
<1>5. Len(s) = 1 <=> i = j
  <2>1. Len(s) = j - i + 1 /\ i \in Int /\ j \in Int
    BY <1>1 DEF PartIs
  <2> QED BY <2>1
<1>6. s[1] = t[i]
  BY <1>1 DEF PartIs
<1>7. L!IsLexeme(s) <=> L!IsWord(s) \/ L!IsNumber(s) \/ L!IsString(s) \/ (Len(s) = 1 /\ s[1] \in Symbols)
  BY DEF L!IsLexeme
<1> QED BY <1>2, <1>3, <1>4, <1>5, <1>6, <1>7 DEF s

-----------------------------------------------------------------------------
(* The lexer: where each token ends.                                       *)

-----------------------------------------------------------------------------
(* Where the scan of a string ends.                                        *)

\* One turn of the loop over a string.
ClosePart(t, j, f) ==
    IF j > Len(t) THEN 0
    ELSE IF t[j] # L!Quote THEN f[j + 1]
    ELSE IF L!At(t, j + 1) = L!Quote THEN f[j + 2]
    ELSE j + 1

\* f is the function that StringEnd computes.
Closes(f, t, i) ==
    /\ \A j \in (i + 1)..(Len(t) + 2) : f[j] = ClosePart(t, j, f)
    /\ L!StringEnd(t, i) = f[i + 1]

\* StringEnd has such a function.
LEMMA StringEndSteps ==
  ASSUME NEW C, NEW t \in Seq(C), NEW i \in 1..Len(t)
  PROVE  \E f : Closes(f, t, i)
<1> DEFINE M == Len(t) + 2
           V == 0..(Len(t) + 1)
           G == [p \in (1..M) \X [1..M -> V] |-> ClosePart(t, p[1], p[2])]
<1>1. Len(t) \in Nat /\ M \in Nat /\ 0 \in V /\ i \in 1..Len(t)
  BY LenProperties
<1>2. \A k \in 1..M : \A h \in [1..M -> V] : G[<<k, h>>] = ClosePart(t, k, h)
  OBVIOUS
<1>3. ASSUME NEW k \in 1..M, ~(k > Len(t)), L!At(t, k + 1) = L!Quote PROVE k + 2 \in (k + 1)..M
  <2>1. k + 1 \in 1..Len(t)
    <3> SUFFICES ASSUME k + 1 \notin 1..Len(t) PROVE FALSE
      OBVIOUS
    <3>1. L!At(t, k + 1) = "end"
      BY AtIs
    <3> QED BY <1>3, <3>1, Marks
  <2> QED BY <1>1, <2>1
<1>4. \A k \in 1..M : ~(k > Len(t)) => k + 1 \in (k + 1)..M
  BY <1>1
<1>5. ASSUME NEW k \in 1..M, NEW h \in [1..M -> V] PROVE ClosePart(t, k, h) \in V
  <2>1. CASE k > Len(t)
    BY <1>1, <2>1 DEF ClosePart
  <2>2. CASE ~(k > Len(t))
    <3>1. k + 1 \in 1..M /\ k + 1 \in V
      BY <1>1, <2>2
    <3>2. L!At(t, k + 1) = L!Quote => k + 2 \in 1..M
      BY <1>1, <1>3, <2>2
    <3> HIDE DEF M, V
    <3>3. h[k + 1] \in V /\ (L!At(t, k + 1) = L!Quote => h[k + 2] \in V)
      BY <3>1, <3>2
    <3> QED BY <2>2, <3>1, <3>3 DEF ClosePart
  <2> QED BY <2>1, <2>2
<1>6. ASSUME NEW k \in 1..M, NEW h, NEW g, \A j \in (k + 1)..M : h[j] = g[j]
      PROVE  ClosePart(t, k, h) = ClosePart(t, k, g)
  <2>1. CASE k > Len(t)
    BY <2>1 DEF ClosePart
  <2>2. CASE ~(k > Len(t))
    <3>1. h[k + 1] = g[k + 1]
      BY <1>4, <1>6, <2>2
    <3>2. L!At(t, k + 1) = L!Quote => h[k + 2] = g[k + 2]
      BY <1>3, <1>6, <2>2
    <3> QED BY <2>2, <3>1, <3>2 DEF ClosePart
  <2> QED BY <2>1, <2>2
<1>7. FillsDown(G, M, V)
  <2>1. ASSUME NEW k \in 1..M, NEW h \in [1..M -> V], NEW g \in [1..M -> V],
               \A j \in (k + 1)..M : h[j] = g[j]
        PROVE  G[<<k, h>>] = G[<<k, g>>]
    <3>1. ClosePart(t, k, h) = ClosePart(t, k, g)
      <4> HIDE DEF M, V, G
      <4> QED BY <1>6, <2>1
    <3> QED BY <1>2, <3>1
  <2>2. \A k \in 1..M : \A h \in [1..M -> V] : G[<<k, h>>] \in V
    <3> HIDE DEF G, M, V
    <3> QED BY <1>2, <1>5
  <2> HIDE DEF G, M, V
  <2> QED BY <2>1, <2>2 DEF FillsDown
<1>8. PICK g : IsFilled(g, G, M, V)
  <2> HIDE DEF G, M, V
  <2> QED BY <1>1, <1>7, Downward
<1>9. \A k \in 1..M : g[k] = ClosePart(t, k, g)
  BY <1>2, <1>8 DEF IsFilled
<1> HIDE DEF G
<1> DEFINE Is(closes) == closes = [j \in (i + 1)..(Len(t) + 2) |->
                IF j > Len(t) THEN 0
                ELSE IF t[j] # L!Quote THEN closes[j + 1]
                ELSE IF L!At(t, j + 1) = L!Quote THEN closes[j + 2]
                ELSE j + 1]
           found == CHOOSE closes : Is(closes)
           h == [j \in (i + 1)..(Len(t) + 2) |-> g[j]]
<1>10. Is(h)
  <2>1. ASSUME NEW j \in (i + 1)..(Len(t) + 2) PROVE h[j] = ClosePart(t, j, h)
    <3>1. j \in 1..M /\ \A k \in (j + 1)..M : k \in (i + 1)..(Len(t) + 2)
      BY <1>1
    <3>2. \A k \in (j + 1)..M : g[k] = h[k]
      BY <3>1
    <3>3. h[j] = g[j]
      OBVIOUS
    <3> HIDE DEF h, M
    <3>4. ClosePart(t, j, g) = ClosePart(t, j, h)
      BY <1>6, <3>1, <3>2
    <3> QED BY <1>9, <3>1, <3>3, <3>4
  <2>2. h = [j \in (i + 1)..(Len(t) + 2) |-> h[j]]
    OBVIOUS
  <2> HIDE DEF h
  <2>3. h = [j \in (i + 1)..(Len(t) + 2) |-> ClosePart(t, j, h)]
    BY <2>1, <2>2
  <2> QED BY <2>3 DEF ClosePart
<1>11. Is(found)
  <2> HIDE DEF Is, h
  <2> QED BY <1>10
<1>12. L!StringEnd(t, i) = found[i + 1]
  BY DEF L!StringEnd
<1> HIDE DEF found
<1>13. \A j \in (i + 1)..(Len(t) + 2) : found[j] = ClosePart(t, j, found)
  BY <1>11 DEF ClosePart
<1> QED BY <1>12, <1>13 DEF Closes

\* A string that is not closed.
Unclosed(t, i) == t[i] = L!Quote /\ EvenRuns(t, i + 1, Len(t))

\* StringEnd is behind a string that no quote follows, or finds that none closes.
LEMMA StringEndIs ==
  ASSUME NEW C, NEW t \in Seq(C), NEW i \in 1..Len(t), t[i] = L!Quote
  PROVE  \/ L!StringEnd(t, i) = 0 /\ Unclosed(t, i)
         \/ \E j \in (i + 1)..Len(t) :
               L!StringEnd(t, i) = j + 1 /\ StringIn(t, i, j) /\ L!At(t, j + 1) # L!Quote
<1> DEFINE N == Len(t)
           a == i + 1
           M == N + 2
<1>1. N \in Nat /\ i \in 1..N /\ a \in Nat /\ M \in Nat
  BY LenProperties
<1>2. PICK f : Closes(f, t, i)
  BY StringEndSteps
<1> DEFINE Done(j) ==
             \/ f[j] = 0 /\ EvenRuns(t, a, N)
             \/ \E k \in j..N : /\ f[j] = k + 1 /\ t[k] = L!Quote /\ EvenRuns(t, a, k - 1)
                                /\ L!At(t, k + 1) # L!Quote
           T == {j \in 1..M : j \in a..(N + 1) /\ EvenRuns(t, a, j - 1) => Done(j)}
<1>3. \A j \in a..M : f[j] = ClosePart(t, j, f)
  BY <1>2 DEF Closes
<1>4. \A j \in 1..N : L!At(t, j) = t[j]
  BY AtIs
<1>5. \A j \in Int : L!At(t, j) = L!Quote => j \in 1..N
  <2> SUFFICES ASSUME NEW j \in Int, L!At(t, j) = L!Quote, j \notin 1..N PROVE FALSE
    OBVIOUS
  <2>1. L!At(t, j) = "end"
    BY AtIs
  <2> QED BY <2>1, Marks
<1>6. ASSUME NEW j \in 1..M, \A k \in (j + 1)..M : k \in T PROVE j \in T
  <2> SUFFICES ASSUME j \in a..(N + 1), EvenRuns(t, a, j - 1) PROVE Done(j)
    OBVIOUS
  <2>1. f[j] = ClosePart(t, j, f) /\ j \in Int /\ j >= a
    BY <1>1, <1>3
  <2>2. CASE j > N
    <3>1. j - 1 = N /\ f[j] = 0
      BY <1>1, <2>1, <2>2 DEF ClosePart
    <3> QED BY <3>1
  <2>3. CASE ~(j > N) /\ t[j] # L!Quote
    <3>1. f[j] = f[j + 1]
      BY <2>1, <2>3 DEF ClosePart
    <3>2. j + 1 \in (j + 1)..M /\ j + 1 \in a..(N + 1) /\ (j + 1) - 1 = j
      BY <1>1, <2>3
    <3>3. EvenRuns(t, a, (j + 1) - 1)
      BY <1>1, <2>1, <2>3, <3>2, EvenGrows
    <3>4. Done(j + 1)
      <4>1. j + 1 \in T
        BY <1>6, <3>2
      <4> HIDE DEF Done, a, M, N
      <4> QED BY <3>2, <3>3, <4>1
    <3>5. \A k \in (j + 1)..N : k \in j..N
      BY <1>1
    <3> QED BY <3>1, <3>4, <3>5
  <2>4. CASE ~(j > N) /\ t[j] = L!Quote /\ L!At(t, j + 1) = L!Quote
    <3>1. f[j] = f[j + 2]
      BY <2>1, <2>4 DEF ClosePart
    <3>2. j + 1 \in 1..N
      BY <1>5, <2>4
    <3>3. j + 2 \in (j + 1)..M /\ j + 2 \in a..(N + 1) /\ (j + 2) - 1 = j + 1
      BY <1>1, <3>2
    <3>4. t[j + 1] = L!Quote
      BY <1>4, <2>4, <3>2
    <3>5. EvenRuns(t, a, (j + 2) - 1)
      <4>1. EvenRuns(t, a, j + 1)
        BY <1>1, <2>1, <2>4, <3>4, EvenGrows
      <4> QED BY <3>3, <4>1
    <3>6. Done(j + 2)
      <4>1. j + 2 \in T
        BY <1>6, <3>3
      <4> HIDE DEF Done, a, M, N
      <4> QED BY <3>3, <3>5, <4>1
    <3>7. \A k \in (j + 2)..N : k \in j..N
      BY <1>1
    <3> QED BY <3>1, <3>6, <3>7
  <2>5. CASE ~(j > N) /\ t[j] = L!Quote /\ L!At(t, j + 1) # L!Quote
    <3>1. f[j] = j + 1
      BY <2>1, <2>5 DEF ClosePart
    <3>2. j \in j..N
      BY <1>1, <2>5
    <3> QED BY <2>5, <3>1, <3>2
  <2> QED BY <2>2, <2>3, <2>4, <2>5
<1> HIDE DEF T
<1>7. \A j \in 1..M : j \in T
  <2> HIDE DEF M
  <2> QED BY <1>1, <1>6, DownTo
<1>8. EvenRuns(t, a, a - 1)
  <2>1. a..(a - 1) = {}
    BY <1>1
  <2> QED BY <2>1 DEF EvenRuns
<1>9. Done(a)
  <2>1. a \in 1..M /\ a \in a..(N + 1)
    BY <1>1
  <2> HIDE DEF Done
  <2> QED BY <1>7, <1>8, <2>1 DEF T
<1>10. L!StringEnd(t, i) = f[a]
  BY <1>2 DEF Closes
<1>11. CASE f[a] = 0 /\ EvenRuns(t, a, N)
  BY <1>10, <1>11 DEF Unclosed
<1>12. CASE \E k \in a..N : /\ f[a] = k + 1 /\ t[k] = L!Quote /\ EvenRuns(t, a, k - 1)
                            /\ L!At(t, k + 1) # L!Quote
  <2>1. PICK k \in a..N : /\ f[a] = k + 1 /\ t[k] = L!Quote /\ EvenRuns(t, a, k - 1)
                          /\ L!At(t, k + 1) # L!Quote
    BY <1>12
  <2>2. StringIn(t, i, k)
    <3>1. i < k
      BY <1>1
    <3> QED BY <2>1, <3>1 DEF StringIn
  <2> QED BY <1>10, <2>1, <2>2
<1> QED BY <1>9, <1>11, <1>12

\* A string ends at the first quote that no other follows.
LEMMA StringLongest ==
  ASSUME NEW C, NEW t \in Seq(C), NEW i \in 1..Len(t), NEW j \in (i + 1)..Len(t),
         StringIn(t, i, j), L!At(t, j + 1) # L!Quote, NEW k \in (j + 1)..Len(t)
  PROVE  ~StringIn(t, i, k)
<1> SUFFICES ASSUME StringIn(t, i, k) PROVE FALSE
  OBVIOUS
<1>1. Len(t) \in Nat /\ i \in Int /\ j \in Int /\ i >= 1 /\ i < j /\ k \in Int /\ j + 1 <= k
  BY LenProperties
<1>2. t[j] = L!Quote /\ EvenRuns(t, i + 1, j - 1) /\ EvenRuns(t, i + 1, k - 1)
  BY DEF StringIn
<1>3. OddAt(t, i + 1, j)
  <2>1. i + 1 \in Nat /\ j >= i + 1
    BY <1>1
  <2> QED BY <1>1, <1>2, <2>1, EvenGrows
<1>4. j \in (i + 1)..(k - 1) /\ j + 1 \in 1..Len(t)
  BY <1>1
<1>5. t[j + 1] = L!Quote
  BY <1>2, <1>3, <1>4 DEF EvenRuns
<1> QED BY <1>4, <1>5, AtIs

\* An open string stays open behind each of its lexemes.
LEMMA UnclosedStays ==
  ASSUME NEW C, NEW t \in Seq(C), NEW i \in 1..Len(t), Unclosed(t, i),
         NEW j \in i..Len(t), StringIn(t, i, j)
  PROVE  j + 1 \in 1..Len(t) /\ Unclosed(t, j + 1)
<1> DEFINE N == Len(t)
           a == i + 1
           c == j + 2
<1>1. N \in Nat /\ i \in 1..N /\ j \in a..N /\ a \in Nat /\ c \in Nat /\ t[j] = L!Quote
  BY LenProperties DEF StringIn
<1>2. EvenRuns(t, a, j - 1) /\ EvenRuns(t, a, N)
  BY DEF StringIn, Unclosed
<1> HIDE DEF N
<1>3. OddAt(t, a, j) /\ j \in Int /\ j >= a
  BY <1>1, <1>2, EvenGrows
<1>4. j < N /\ t[j + 1] = L!Quote
  BY <1>1, <1>2, <1>3 DEF EvenRuns
<1>5. ~OddAt(t, a, j + 1)
  <2>1. j + 1 \in Int /\ j + 1 >= a /\ (j + 1) - 1 = j
    BY <1>3
  <2>2. OddAt(t, a, j + 1) <=> t[j + 1] = L!Quote /\ ~OddAt(t, a, (j + 1) - 1)
    BY <1>1, <2>1, OddStep
  <2> QED BY <1>3, <2>1, <2>2
<1> DEFINE T == {n \in 0..N : c - 1 + n <= N => (OddAt(t, a, c - 1 + n) <=> OddAt(t, c, c - 1 + n))}
<1>6. 0 \in T
  <2>1. 0 \in 0..N /\ c - 1 + 0 = j + 1 /\ c - 1 + 0 = c - 1
    BY <1>1
  <2>2. ~OddAt(t, c, c - 1)
    BY <1>1, OddStep
  <2> QED BY <1>5, <2>1, <2>2
<1>7. ASSUME NEW n \in 1..N, n - 1 \in T PROVE n \in T
  <2> DEFINE k == c - 1 + n
  <2>1. n \in 0..N /\ k \in Int /\ k >= a /\ k >= c /\ c - 1 + (n - 1) = k - 1
    BY <1>1
  <2> SUFFICES ASSUME k <= N PROVE OddAt(t, a, k) <=> OddAt(t, c, k)
    BY <2>1
  <2>2. k - 1 <= N
    BY <1>1, <2>1
  <2>3. OddAt(t, a, k - 1) <=> OddAt(t, c, k - 1)
    BY <1>7, <2>1, <2>2
  <2> HIDE DEF k, a, c
  <2> QED BY <1>1, <2>1, <2>3, OddStep
<1>8. \A n \in 0..N : n \in T
  <2> HIDE DEF T
  <2> QED BY <1>1, <1>6, <1>7, UpTo
<1>9. ASSUME NEW k \in c..N, OddAt(t, c, k) PROVE k < N /\ t[k + 1] = L!Quote
  <2> DEFINE n == k - (c - 1)
  <2>1. n \in 0..N /\ c - 1 + n = k /\ k \in a..N
    BY <1>1
  <2>2. n \in T
    BY <1>8, <2>1
  <2>3. OddAt(t, a, k) <=> OddAt(t, c, k)
    <3> HIDE DEF n
    <3> QED BY <2>1, <2>2
  <2> QED BY <1>2, <1>9, <2>1, <2>3 DEF EvenRuns
<1>10. EvenRuns(t, c, N)
  BY <1>9 DEF EvenRuns
<1>11. j + 1 \in 1..N /\ (j + 1) + 1 = c
  BY <1>1, <1>4
<1> QED BY <1>4, <1>10, <1>11 DEF Unclosed, N

-----------------------------------------------------------------------------
(* TokenEnd is the end of the longest lexeme.                              *)

\* The lexemes that start with a digit or a minus are numbers, with a letter words.
LEMMA NumberEndsAre ==
  ASSUME NEW C, NEW t \in Seq(C), NEW i \in 1..Len(t), t[i] \in Digits \/ t[i] = L!Minus
  PROVE  \A j : j \in L!LexemeEnds(t, i) <=> j \in i..Len(t) /\ NumberIn(t, FirstDigit(t, i), j)
<1>1. t[i] \notin Letters /\ t[i] # L!Quote /\ t[i] \notin Symbols
  BY Marks, Classes
<1>2. ASSUME NEW j \in i..Len(t) PROVE L!IsLexeme(SubSeq(t, i, j)) <=> NumberIn(t, FirstDigit(t, i), j)
  BY <1>1, LexemeIs DEF StringIn
<1> QED BY <1>2, EndsAre

\* What NumberIn takes, with the length of the text as a number.
LEMMA NumberRange ==
  ASSUME NEW N \in Nat, NEW t, NEW d \in 1..N, NEW w \in d..(N + 1),
         \A k \in d..(w - 1) : t[k] \in Digits,
         w \in 1..N => t[w] \notin Digits, t[d] \in Digits
  PROVE  /\ w \in (d + 1)..(N + 1) /\ NumberIn(t, d, w - 1)
         /\ (w \in 1..N => t[w] # L!Dot) => \A j \in 1..N : NumberIn(t, d, j) => j <= w - 1
         /\ w + 1 \notin 1..N \/ t[w + 1] \notin Digits =>
               \A j \in 1..N : NumberIn(t, d, j) => j <= w - 1
<1>1. w # d
  OBVIOUS
<1>2. w \in (d + 1)..(N + 1) /\ w - 1 \in d..(w - 1)
  BY <1>1
<1>3. NumberIn(t, d, w - 1)
  <2>1. \A p \in d..(w - 1) : t[p] # L!Dot
    BY Classes
  <2>2. d <= w - 1 /\ t[w - 1] \in Digits
    BY <1>2
  <2> QED BY <2>1, <2>2 DEF NumberIn
<1>4. ASSUME w \in 1..N => t[w] # L!Dot, NEW j \in 1..N, NumberIn(t, d, j) PROVE j <= w - 1
  <2> SUFFICES ASSUME ~(j <= w - 1) PROVE FALSE
    OBVIOUS
  <2>1. w \in d..j /\ w \in 1..N
    OBVIOUS
  <2>2. t[w] \in Digits \cup {L!Dot}
    BY <1>4, <2>1 DEF NumberIn
  <2> QED BY <1>4, <2>1, <2>2
<1>5. ASSUME w + 1 \notin 1..N \/ t[w + 1] \notin Digits, NEW j \in 1..N, NumberIn(t, d, j)
      PROVE  j <= w - 1
  <2> SUFFICES ASSUME ~(j <= w - 1) PROVE FALSE
    OBVIOUS
  <2>1. w \in d..j /\ w \in 1..N
    OBVIOUS
  <2>2. t[w] = L!Dot
    BY <1>5, <2>1 DEF NumberIn
  <2>3. w # j
    BY <1>5, <2>1 DEF NumberIn
  <2>4. w + 1 \in d..j /\ w + 1 \in 1..N /\ w # w + 1
    BY <2>1, <2>3
  <2>5. t[w + 1] \in Digits \cup {L!Dot}
    BY <1>5, <2>4 DEF NumberIn
  <2>6. t[w + 1] = L!Dot
    BY <1>5, <2>4, <2>5
  <2> QED BY <1>5, <2>1, <2>2, <2>4, <2>6 DEF NumberIn
<1> QED BY <1>2, <1>3, <1>4, <1>5

\* The same behind a dot that a digit follows.
LEMMA FractionRange ==
  ASSUME NEW N \in Nat, NEW t, NEW d \in 1..N, NEW w \in (d + 1)..N, t[w] = L!Dot,
         \A k \in d..(w - 1) : t[k] \in Digits,
         NEW x \in (w + 1)..(N + 1), \A k \in (w + 1)..(x - 1) : t[k] \in Digits,
         x \in 1..N => t[x] \notin Digits, w + 1 \in 1..N, t[w + 1] \in Digits
  PROVE  /\ x \in (w + 2)..(N + 1) /\ NumberIn(t, d, x - 1)
         /\ \A j \in 1..N : NumberIn(t, d, j) => j <= x - 1
<1>1. x # w + 1
  OBVIOUS
<1>2. x \in (w + 2)..(N + 1) /\ x - 1 \in (w + 1)..(x - 1) /\ d \in d..(w - 1)
  BY <1>1
<1>3. NumberIn(t, d, x - 1)
  <2>1. ASSUME NEW p \in d..(x - 1) PROVE p = w \/ t[p] \in Digits
    <3>1. p = w \/ p \in d..(w - 1) \/ p \in (w + 1)..(x - 1)
      OBVIOUS
    <3> QED BY <3>1
  <2>2. \A p \in d..(x - 1) : t[p] = L!Dot => p = w
    BY <2>1, Classes
  <2>3. d <= x - 1 /\ t[x - 1] \in Digits /\ t[d] \in Digits
    BY <1>2
  <2>4. \A p \in d..(x - 1) : t[p] \in Digits \cup {L!Dot}
    BY <2>1
  <2> QED BY <2>2, <2>3, <2>4 DEF NumberIn
<1>4. ASSUME NEW j \in 1..N, NumberIn(t, d, j) PROVE j <= x - 1
  <2> SUFFICES ASSUME ~(j <= x - 1) PROVE FALSE
    OBVIOUS
  <2>1. x \in d..j /\ x \in 1..N /\ w \in d..j /\ x # w
    BY <1>2
  <2>2. t[x] \in Digits \cup {L!Dot}
    BY <1>4, <2>1 DEF NumberIn
  <2>3. t[x] = L!Dot
    BY <2>1, <2>2
  <2> QED BY <1>4, <2>1, <2>3 DEF NumberIn
<1> QED BY <1>2, <1>3, <1>4

\* A dot with the longest number before it: no token continues, and none starts with the dot.
DotAhead(t, i) == \E w \in (i + 1)..Len(t) : t[w] = L!Dot /\ Longest(t, i, w)

\* e is what NumberEnd may return.
NumberToken(t, i, e) ==
    \/ e \in (i + 1)..(Len(t) + 1) /\ Longest(t, i, e)
    \/ e = 0 /\ DotAhead(t, i)

\* NumberEnd is behind the longest number, or finds a dot that cannot be read.
LEMMA NumberEndIs ==
  ASSUME NEW C, NEW t \in Seq(C), NEW i \in 1..Len(t),
         t[i] \in Digits \/ (t[i] = L!Minus /\ L!At(t, i + 1) \in Digits)
  PROVE  NumberToken(t, i, L!NumberEnd(t, i))
<1> DEFINE N == Len(t)
           d == FirstDigit(t, i)
           w == L!RunEnd(t, d, Digits)
           x == L!RunEnd(t, w + 1, Digits)
<1>1. N \in Nat /\ i \in 1..N
  BY LenProperties
<1>2. "end" \notin Digits /\ (t[i] \in Digits => t[i] # L!Minus)
  BY ClassesAssumption
<1>3. d \in i..N /\ t[d] \in Digits
  <2>1. CASE t[i] \in Digits
    BY <1>1, <1>2, <2>1 DEF FirstDigit
  <2>2. CASE t[i] = L!Minus /\ L!At(t, i + 1) \in Digits
    <3>1. i + 1 \in 1..Len(t)
      BY <1>2, <2>2, AtIs
    <3> QED BY <1>1, <2>2, <3>1, AtIs DEF FirstDigit
  <2> QED BY <2>1, <2>2
<1>4. \A j : j \in L!LexemeEnds(t, i) <=> j \in i..N /\ NumberIn(t, d, j)
  BY NumberEndsAre
<1>5. \A j \in Int : j < i => ~NumberIn(t, d, j)
  BY <1>1, <1>3 DEF NumberIn
<1>6. L!NumberEnd(t, i) = IF L!At(t, w) # L!Dot THEN w
                          ELSE IF L!At(t, w + 1) \in Digits THEN x ELSE 0
  BY DEF L!NumberEnd, FirstDigit
<1>7. d \in 1..(Len(t) + 1) /\ d \in 1..N
  BY <1>1, <1>3
<1>8. ClassRun(t, d, Digits, w)
  BY <1>2, <1>7, RunEndIs
<1>9. w \in d..(N + 1) /\ L!At(t, w) \notin Digits /\ \A k \in d..(w - 1) : t[k] \in Digits
  BY <1>8 DEF ClassRun
<1>10. w \in 1..N => t[w] = L!At(t, w)
  BY AtIs
<1>11. w + 1 \in 1..N => t[w + 1] = L!At(t, w + 1)
  BY AtIs
<1>12. w \notin 1..N => L!At(t, w) = "end"
  BY AtIs
<1>13. w + 1 \notin 1..N => L!At(t, w + 1) = "end"
  BY AtIs
<1> HIDE DEF N, d, w
<1>14. /\ w \in (d + 1)..(N + 1) /\ NumberIn(t, d, w - 1)
       /\ (w \in 1..N => t[w] # L!Dot) => \A j \in 1..N : NumberIn(t, d, j) => j <= w - 1
       /\ w + 1 \notin 1..N \/ t[w + 1] \notin Digits =>
             \A j \in 1..N : NumberIn(t, d, j) => j <= w - 1
  <2>1. w \in 1..N => t[w] \notin Digits
    BY <1>9, <1>10
  <2> QED BY <1>1, <1>3, <1>7, <1>9, <2>1, NumberRange
<1>15. ASSUME NEW e \in (i + 1)..(N + 1), NumberIn(t, d, e - 1),
              \A j \in 1..N : NumberIn(t, d, j) => j <= e - 1
       PROVE  Longest(t, i, e)
  <2>1. e - 1 \in i..N /\ \A j \in i..N : j \in 1..N
    BY <1>1
  <2> QED BY <1>4, <1>15, <2>1 DEF Longest
<1>16. w \in (i + 1)..(N + 1)
  BY <1>1, <1>3, <1>14
<1>17. CASE L!At(t, w) # L!Dot
  <2>1. Longest(t, i, w)
    BY <1>10, <1>14, <1>15, <1>16, <1>17
  <2> QED BY <1>6, <1>16, <1>17, <2>1 DEF NumberToken, N
<1>18. CASE L!At(t, w) = L!Dot /\ L!At(t, w + 1) \notin Digits
  <2>1. Longest(t, i, w)
    BY <1>11, <1>14, <1>15, <1>16, <1>18
  <2>2. w \in 1..N
    BY <1>12, <1>18, Marks
  <2>3. t[w] = L!Dot /\ w \in (i + 1)..N
    BY <1>1, <1>10, <1>16, <1>18, <2>2
  <2> QED BY <1>6, <1>18, <2>1, <2>3 DEF NumberToken, DotAhead, N
<1>19. CASE L!At(t, w) = L!Dot /\ L!At(t, w + 1) \in Digits
  <2>1. w \in 1..N /\ w + 1 \in 1..N
    BY <1>2, <1>12, <1>13, <1>19, Marks
  <2>2. ClassRun(t, w + 1, Digits, x)
    BY <1>2, <2>1, RunEndIs DEF N
  <2>3. x \in (w + 1)..(N + 1) /\ L!At(t, x) \notin Digits /\ \A k \in (w + 1)..(x - 1) : t[k] \in Digits
    BY <2>2 DEF ClassRun, N
  <2>4. x \in 1..N => t[x] \notin Digits
    BY <2>3, AtIs DEF N
  <2> HIDE DEF x
  <2>5. w \in (d + 1)..N
    BY <1>1, <1>7, <1>14, <2>1
  <2>6. t[w] = L!Dot /\ t[w + 1] \in Digits
    BY <1>10, <1>11, <1>19, <2>1
  <2>7. /\ x \in (w + 2)..(N + 1) /\ NumberIn(t, d, x - 1)
        /\ \A j \in 1..N : NumberIn(t, d, j) => j <= x - 1
    BY <1>1, <1>7, <1>9, <2>1, <2>3, <2>4, <2>5, <2>6, FractionRange
  <2>8. x \in (i + 1)..(N + 1)
    BY <1>1, <1>16, <2>7
  <2>9. Longest(t, i, x)
    BY <1>15, <2>7, <2>8
  <2> QED BY <1>6, <1>19, <2>8, <2>9 DEF NumberToken, N
<1> QED BY <1>17, <1>18, <1>19

\* A minus without a digit starts no lexeme.
LEMMA NoNumber ==
  ASSUME NEW C, NEW t \in Seq(C), NEW i \in 1..Len(t), t[i] = L!Minus, L!At(t, i + 1) \notin Digits
  PROVE  L!LexemeEnds(t, i) = {}
<1>1. ASSUME NEW j \in i..Len(t), NumberIn(t, i + 1, j) PROVE FALSE
  <2>1. i + 1 \in 1..Len(t)
    BY <1>1, LenProperties DEF NumberIn
  <2> QED BY <1>1, <2>1, AtIs DEF NumberIn
<1> QED BY <1>1, NumberEndsAre DEF FirstDigit

\* A word is the longest lexeme at its place.
LEMMA WordEndIs ==
  ASSUME NEW C, NEW t \in Seq(C), NEW i \in 1..Len(t), t[i] \in Letters
  PROVE  L!WordEnd(t, i) \in (i + 1)..(Len(t) + 1) /\ Longest(t, i, L!WordEnd(t, i))
<1> DEFINE N == Len(t)
           e == L!WordEnd(t, i)
<1>1. N \in Nat /\ i \in 1..N /\ i \in 1..(Len(t) + 1)
  BY LenProperties
<1>2. "end" \notin Letters \cup Digits
  BY ClassesAssumption
<1>3. ClassRun(t, i, Letters \cup Digits, e)
  BY <1>1, <1>2, RunEndIs DEF L!WordEnd
<1>4. /\ e \in i..(N + 1) /\ L!At(t, e) \notin Letters \cup Digits
      /\ \A k \in i..(e - 1) : t[k] \in Letters \cup Digits
  BY <1>3 DEF ClassRun
<1>5. L!At(t, i) = t[i] /\ (e \in 1..N => L!At(t, e) = t[e])
  BY AtIs
<1>6. t[i] \notin Digits /\ t[i] # L!Quote /\ t[i] # L!Minus /\ t[i] \notin Symbols
  BY Classes
<1>7. ASSUME NEW j \in i..N
      PROVE  j \in L!LexemeEnds(t, i) <=> \A k \in i..j : t[k] \in Letters \cup Digits
  <2>1. ~NumberIn(t, FirstDigit(t, i), j) /\ ~StringIn(t, i, j)
    BY <1>6 DEF NumberIn, FirstDigit, StringIn
  <2>2. i = j => \A k \in i..j : k = i
    BY <1>1
  <2> QED BY <1>6, <2>1, LexemeIs, EndsAre
<1>8. \A j \in L!LexemeEnds(t, i) : j \in i..N
  BY EndsAre
<1> HIDE DEF N, e
<1>9. e # i
  BY <1>4, <1>5
<1>10. e \in (i + 1)..(N + 1) /\ e - 1 \in i..N
  BY <1>1, <1>4, <1>9
<1>11. ASSUME NEW j \in i..N, \A k \in i..j : t[k] \in Letters \cup Digits PROVE j <= e - 1
  <2> SUFFICES ASSUME ~(j <= e - 1) PROVE FALSE
    OBVIOUS
  <2>1. e \in i..j /\ e \in 1..N
    BY <1>1, <1>10
  <2> QED BY <1>4, <1>5, <1>11, <2>1
<1>12. Longest(t, i, e)
  BY <1>4, <1>7, <1>8, <1>10, <1>11 DEF Longest
<1> QED BY <1>10, <1>12 DEF N, e

\* A string that closes is the longest lexeme at its place.
LEMMA StringToken ==
  ASSUME NEW C, NEW t \in Seq(C), NEW i \in 1..Len(t), t[i] = L!Quote,
         NEW j \in (i + 1)..Len(t), StringIn(t, i, j), L!At(t, j + 1) # L!Quote
  PROVE  j + 1 \in (i + 1)..(Len(t) + 1) /\ Longest(t, i, j + 1)
<1>1. Len(t) \in Nat /\ i \in Int /\ i >= 1
  BY LenProperties
<1>2. j \in i..Len(t) /\ j + 1 \in (i + 1)..(Len(t) + 1) /\ (j + 1) - 1 = j
  BY <1>1
<1>3. t[i] \notin Letters /\ t[i] \notin Digits /\ t[i] # L!Minus /\ t[i] \notin Symbols
  BY Marks, Classes
<1>4. ASSUME NEW k \in i..Len(t) PROVE k \in L!LexemeEnds(t, i) <=> StringIn(t, i, k)
  <2>1. ~NumberIn(t, FirstDigit(t, i), k)
    BY <1>3 DEF FirstDigit, NumberIn
  <2> QED BY <1>3, <2>1, LexemeIs, EndsAre
<1>5. ASSUME NEW k \in L!LexemeEnds(t, i) PROVE k <= j
  <2>1. k \in i..Len(t) /\ StringIn(t, i, k)
    BY <1>4, EndsAre
  <2> SUFFICES ASSUME ~(k <= j) PROVE FALSE
    OBVIOUS
  <2>2. k \in (j + 1)..Len(t)
    BY <1>1, <2>1
  <2> QED BY <2>1, <2>2, StringLongest
<1> QED BY <1>2, <1>4, <1>5 DEF Longest

\* A place that no token leaves.
Stuck(t, i) == L!LexemeEnds(t, i) = {} \/ DotAhead(t, i) \/ Unclosed(t, i)

\* e is what TokenEnd may return.
TokenIs(t, i, e) ==
    \/ e \in (i + 1)..(Len(t) + 1) /\ Longest(t, i, e)
    \/ e = 0 /\ Stuck(t, i)

\* Where a character is none that a lexeme starts with.
LEMMA NoLexeme ==
  ASSUME NEW C, NEW t \in Seq(C), NEW i \in 1..Len(t), t[i] \notin Letters, t[i] \notin Digits,
         t[i] # L!Minus, t[i] # L!Quote, t[i] \notin Symbols
  PROVE  L!LexemeEnds(t, i) = {}
<1>1. ASSUME NEW j \in i..Len(t) PROVE ~L!IsLexeme(SubSeq(t, i, j))
  <2>1. ~NumberIn(t, FirstDigit(t, i), j) /\ ~StringIn(t, i, j)
    BY DEF FirstDigit, NumberIn, StringIn
  <2> QED BY <2>1, LexemeIs
<1> QED BY <1>1, EndsAre

\* A symbol is a lexeme of its own.
LEMMA SymbolEnds ==
  ASSUME NEW C, NEW t \in Seq(C), NEW i \in 1..Len(t), t[i] \in Symbols
  PROVE  Longest(t, i, i + 1) /\ i + 1 \in (i + 1)..(Len(t) + 1)
<1>1. Len(t) \in Nat /\ i \in 1..Len(t)
  BY LenProperties
<1>2. t[i] \notin Letters /\ t[i] \notin Digits /\ t[i] # L!Minus /\ t[i] # L!Quote
  BY Classes
<1>3. ASSUME NEW j \in i..Len(t) PROVE j \in L!LexemeEnds(t, i) <=> i = j
  <2>1. ~NumberIn(t, FirstDigit(t, i), j) /\ ~StringIn(t, i, j)
    BY <1>2 DEF FirstDigit, NumberIn, StringIn
  <2> QED BY <1>2, <2>1, LexemeIs, EndsAre
<1>4. \A j \in L!LexemeEnds(t, i) : j \in i..Len(t)
  BY EndsAre
<1>5. i \in i..Len(t) /\ (i + 1) - 1 = i /\ i + 1 \in (i + 1)..(Len(t) + 1) /\ i <= i
  BY <1>1
<1> QED BY <1>3, <1>4, <1>5 DEF Longest

\* The branches of TokenEnd.
LEMMA TokenCases ==
  ASSUME NEW C, NEW t \in Seq(C), NEW i \in 1..Len(t)
  PROVE  /\ t[i] \in Letters => L!TokenEnd(t, i) = L!WordEnd(t, i)
         /\ t[i] \in Digits => L!TokenEnd(t, i) = L!NumberEnd(t, i)
         /\ t[i] = L!Minus => L!TokenEnd(t, i) =
               IF L!At(t, i + 1) \in Digits THEN L!NumberEnd(t, i) ELSE 0
         /\ t[i] = L!Quote => L!TokenEnd(t, i) = L!StringEnd(t, i)
         /\ (t[i] \notin Letters /\ t[i] \notin Digits /\ t[i] # L!Minus /\ t[i] # L!Quote) =>
               L!TokenEnd(t, i) = IF t[i] \in Symbols THEN i + 1 ELSE 0
<1>1. t[i] \in Letters => t[i] \notin Digits /\ t[i] # L!Minus /\ t[i] # L!Quote
  BY Classes
<1>2. t[i] \in Digits => t[i] # L!Minus /\ t[i] # L!Quote
  BY Classes
<1>3. L!Minus # L!Quote
  BY Marks
<1> QED BY <1>1, <1>2, <1>3 DEF L!TokenEnd

\* TokenEnd is behind the longest lexeme, or finds that none can be read on.
LEMMA TokenEndIs ==
  ASSUME NEW C, NEW t \in Seq(C), NEW i \in 1..Len(t)
  PROVE  TokenIs(t, i, L!TokenEnd(t, i))
<1>1. CASE t[i] \in Letters
  BY <1>1, TokenCases, WordEndIs DEF TokenIs
<1>2. CASE t[i] \in Digits
  <2>1. L!TokenEnd(t, i) = L!NumberEnd(t, i)
    BY <1>2, TokenCases
  <2>2. NumberToken(t, i, L!NumberEnd(t, i))
    <3>1. t[i] \in Digits \/ (t[i] = L!Minus /\ L!At(t, i + 1) \in Digits)
      BY <1>2
    <3> QED BY <3>1, NumberEndIs, Zenon
  <2> QED BY <2>1, <2>2 DEF TokenIs, NumberToken, Stuck
<1>3. CASE t[i] = L!Minus
  <2>1. CASE L!At(t, i + 1) \in Digits
    <3>1. NumberToken(t, i, L!NumberEnd(t, i)) /\ L!TokenEnd(t, i) = L!NumberEnd(t, i)
      BY <1>3, <2>1, TokenCases, NumberEndIs
    <3> QED BY <3>1 DEF TokenIs, NumberToken, Stuck
  <2>2. CASE L!At(t, i + 1) \notin Digits
    BY <1>3, <2>2, TokenCases, NoNumber DEF TokenIs, Stuck
  <2> QED BY <2>1, <2>2
<1>4. CASE t[i] = L!Quote
  BY <1>4, TokenCases, StringEndIs, StringToken DEF TokenIs, Stuck
<1>5. CASE t[i] \notin Letters /\ t[i] \notin Digits /\ t[i] # L!Minus /\ t[i] # L!Quote
  <2>1. CASE t[i] \in Symbols
    BY <1>5, <2>1, TokenCases, SymbolEnds DEF TokenIs
  <2>2. CASE t[i] \notin Symbols
    BY <1>5, <2>2, TokenCases, NoLexeme DEF TokenIs, Stuck
  <2> QED BY <2>1, <2>2
<1> QED BY <1>1, <1>2, <1>3, <1>4, <1>5

\* No lexeme starts with a space or a dot.
LEMMA NoneStartsThere ==
  ASSUME NEW C, NEW t \in Seq(C), NEW i \in 1..Len(t), t[i] \in Spaces \/ t[i] = L!Dot
  PROVE  L!LexemeEnds(t, i) = {}
<1>1. /\ t[i] \notin Letters /\ t[i] \notin Digits
      /\ t[i] # L!Minus /\ t[i] # L!Quote /\ t[i] \notin Symbols
  BY Marks, Classes
<1> QED BY <1>1, NoLexeme

-----------------------------------------------------------------------------
(* Tokenize reads what IsReadable has for readable.                        *)

\* One place of IsReadable, where f says what is readable behind it.
ReadPart(t, i, f) ==
    \/ i > Len(t)
    \/ t[i] \in Spaces /\ f[i + 1]
    \/ \E j \in L!LexemeEnds(t, i) :
          f[j + 1] /\ \A k \in L!LexemeEnds(t, i) : k <= j

\* f is the function that IsReadable computes.
Reads(f, t) ==
    /\ \A i \in 1..(Len(t) + 1) : f[i] \in BOOLEAN /\ f[i] = ReadPart(t, i, f)
    /\ L!IsReadable(t) = f[1]

\* IsReadable has such a function.
LEMMA ReadableSteps ==
  ASSUME NEW C, NEW t \in Seq(C)
  PROVE  \E f : Reads(f, t)
<1> DEFINE M == Len(t) + 1
           G == [p \in (1..M) \X [1..M -> BOOLEAN] |-> ReadPart(t, p[1], p[2])]
<1>1. Len(t) \in Nat /\ M \in Nat
  BY LenProperties
<1>2. \A k \in 1..M : \A h \in [1..M -> BOOLEAN] : G[<<k, h>>] = ReadPart(t, k, h)
  OBVIOUS
<1>3. ASSUME NEW k, NEW h PROVE ReadPart(t, k, h) \in BOOLEAN
  BY DEF ReadPart
<1>4. \A k \in 1..M : ~(k > Len(t)) => k \in 1..Len(t) /\ k + 1 \in (k + 1)..M
  BY <1>1
<1>5. \A k \in 1..Len(t) : \A j \in L!LexemeEnds(t, k) : j + 1 \in (k + 1)..M
  <2>1. \A k \in 1..Len(t) : \A j \in k..Len(t) : j + 1 \in (k + 1)..M
    BY <1>1
  <2> QED BY <2>1, EndsAre
<1>6. ASSUME NEW k \in 1..M, NEW h, NEW g, \A j \in (k + 1)..M : h[j] = g[j]
      PROVE  ReadPart(t, k, h) = ReadPart(t, k, g)
  <2>1. CASE k > Len(t)
    BY <2>1 DEF ReadPart
  <2>2. CASE ~(k > Len(t))
    <3>1. h[k + 1] = g[k + 1] /\ \A j \in L!LexemeEnds(t, k) : h[j + 1] = g[j + 1]
      BY <1>4, <1>5, <1>6, <2>2
    <3> QED BY <3>1 DEF ReadPart
  <2> QED BY <2>1, <2>2
<1>7. FillsDown(G, M, BOOLEAN)
  <2>1. ASSUME NEW k \in 1..M, NEW h \in [1..M -> BOOLEAN], NEW g \in [1..M -> BOOLEAN],
               \A j \in (k + 1)..M : h[j] = g[j]
        PROVE  G[<<k, h>>] = G[<<k, g>>]
    <3>1. ReadPart(t, k, h) = ReadPart(t, k, g)
      BY <1>6, <2>1
    <3> HIDE DEF G
    <3> QED BY <1>2, <3>1
  <2> HIDE DEF G, M
  <2> QED BY <1>2, <1>3, <2>1 DEF FillsDown
<1> HIDE DEF G, M
<1>8. PICK f : IsFilled(f, G, M, BOOLEAN)
  BY <1>1, <1>7, Downward
<1>9. f \in [1..M -> BOOLEAN] /\ \A k \in 1..M : f[k] = ReadPart(t, k, f)
  BY <1>2, <1>8 DEF IsFilled
<1>10. f = [k \in 1..M |-> ReadPart(t, k, f)]
  BY <1>9
<1> DEFINE Is(r) == r = [k \in 1..M |-> ReadPart(t, k, r)]
           found == CHOOSE r : Is(r)
<1>11. Is(found)
  <2>1. Is(f)
    BY <1>10
  <2> HIDE DEF Is
  <2> QED BY <2>1
<1>12. \A k \in 1..M : found[k] = ReadPart(t, k, found)
  <2> HIDE DEF found
  <2> QED BY <1>11
<1>13. L!IsReadable(t) = found[1]
  BY DEF L!IsReadable, M, ReadPart
<1> HIDE DEF found
<1>14. \A k \in 1..M : found[k] \in BOOLEAN
  BY <1>3, <1>12
<1> QED BY <1>12, <1>13, <1>14 DEF Reads, M

\* What is readable from a lexeme on is what is readable behind it; a dot and an open
\* string are not.
LEMMA ReadableBehind ==
  ASSUME NEW C, NEW t \in Seq(C), NEW f, Reads(f, t), NEW i \in 1..Len(t)
  PROVE  /\ t[i] \in Spaces => f[i] = f[i + 1]
         /\ \A e : e \in (i + 1)..(Len(t) + 1) /\ Longest(t, i, e) => f[i] = f[e]
         /\ t[i] = L!Dot => ~f[i]
         /\ t[i] \notin Spaces /\ L!LexemeEnds(t, i) = {} => ~f[i]
<1>1. Len(t) \in Nat /\ i \in 1..(Len(t) + 1) /\ ~(i > Len(t)) /\ i + 1 \in 1..(Len(t) + 1)
  BY LenProperties
<1>2. f[i] \in BOOLEAN /\ f[i] = ReadPart(t, i, f)
  BY <1>1 DEF Reads
<1>3. t[i] \in Spaces \/ t[i] = L!Dot => L!LexemeEnds(t, i) = {}
  BY NoneStartsThere
<1>4. f[i + 1] \in BOOLEAN
  BY <1>1 DEF Reads
<1>5. t[i] \in Spaces => t[i] # L!Dot
  BY Classes
<1>6. L!LexemeEnds(t, i) = {} => (f[i] <=> t[i] \in Spaces /\ f[i + 1])
  BY <1>1, <1>2 DEF ReadPart
<1>7. t[i] \in Spaces => f[i] = f[i + 1]
  BY <1>2, <1>3, <1>4, <1>6
<1>8. ASSUME NEW e \in (i + 1)..(Len(t) + 1), Longest(t, i, e) PROVE f[i] = f[e]
  <2>1. e - 1 \in L!LexemeEnds(t, i) /\ \A j \in L!LexemeEnds(t, i) : j <= e - 1
    BY <1>8 DEF Longest
  <2>2. t[i] \notin Spaces
    BY <1>3, <2>1
  <2>3. \A j \in L!LexemeEnds(t, i) : j \in Int
    BY EndsAre
  <2>4. (e - 1) + 1 = e /\ e - 1 \in Int /\ e \in 1..(Len(t) + 1)
    BY <1>1
  <2>5. ASSUME NEW j \in L!LexemeEnds(t, i), \A k \in L!LexemeEnds(t, i) : k <= j PROVE j + 1 = e
    <3>1. j <= e - 1 /\ e - 1 <= j /\ j \in Int
      BY <2>1, <2>3, <2>5
    <3> QED BY <2>4, <3>1
  <2>6. f[i] <=> \E j \in L!LexemeEnds(t, i) : f[j + 1] /\ \A k \in L!LexemeEnds(t, i) : k <= j
    BY <1>1, <1>2, <2>2 DEF ReadPart
  <2>7. f[i] => f[e]
    BY <2>5, <2>6
  <2>8. f[e] => f[i]
    BY <2>1, <2>4, <2>6
  <2>9. f[e] \in BOOLEAN
    BY <2>4 DEF Reads
  <2> QED BY <1>2, <2>7, <2>8, <2>9
<1> QED BY <1>3, <1>5, <1>6, <1>7, <1>8

\* Nothing can be read from an open string on, whichever lexemes it is cut into.
LEMMA UnclosedIsUnread ==
  ASSUME NEW C, NEW t \in Seq(C), NEW f, Reads(f, t)
  PROVE  \A i \in 1..Len(t) : Unclosed(t, i) => ~f[i]
<1> DEFINE N == Len(t)
           T == {i \in 1..N : Unclosed(t, i) => ~f[i]}
<1>1. N \in Nat
  BY LenProperties
<1>2. ASSUME NEW i \in 1..N, \A j \in (i + 1)..N : j \in T PROVE i \in T
  <2> SUFFICES ASSUME Unclosed(t, i) PROVE ~f[i]
    OBVIOUS
  <2>1. t[i] = L!Quote
    BY DEF Unclosed
  <2>2. /\ t[i] \notin Spaces /\ t[i] \notin Letters /\ t[i] \notin Digits /\ t[i] # L!Minus
        /\ t[i] \notin Symbols
    BY <2>1, Marks, Classes
  <2>3. ASSUME NEW j \in L!LexemeEnds(t, i) PROVE ~f[j + 1]
    <3>1. j \in i..N /\ L!IsLexeme(SubSeq(t, i, j))
      BY <2>3, EndsAre
    <3>2. ~NumberIn(t, FirstDigit(t, i), j)
      BY <2>2 DEF FirstDigit, NumberIn
    <3>3. StringIn(t, i, j)
      BY <2>2, <3>1, <3>2, LexemeIs
    <3>4. j + 1 \in 1..N /\ Unclosed(t, j + 1)
      BY <3>1, <3>3, UnclosedStays
    <3>5. j + 1 \in (i + 1)..N
      BY <1>1, <3>1, <3>4
    <3> QED BY <1>2, <3>4, <3>5
  <2>4. f[i] = ReadPart(t, i, f) /\ ~(i > Len(t))
    BY <1>1 DEF Reads
  <2> QED BY <2>2, <2>3, <2>4 DEF ReadPart
<1>3. \A i \in 1..N : i \in T
  <2> HIDE DEF N, T
  <2> QED BY <1>1, <1>2, DownTo
<1> QED BY <1>3

\* Nothing can be read from a place that no token leaves.
LEMMA StuckIsUnread ==
  ASSUME NEW C, NEW t \in Seq(C), NEW f, Reads(f, t), NEW i \in 1..Len(t), t[i] \notin Spaces,
         Stuck(t, i)
  PROVE  ~f[i]
<1>1. CASE L!LexemeEnds(t, i) = {}
  BY <1>1, ReadableBehind
<1>2. CASE DotAhead(t, i)
  <2>1. PICK w \in (i + 1)..Len(t) : t[w] = L!Dot /\ Longest(t, i, w)
    BY <1>2 DEF DotAhead
  <2>2. w \in 1..Len(t) /\ w \in (i + 1)..(Len(t) + 1)
    BY LenProperties
  <2>3. f[i] = f[w]
    BY <2>1, <2>2, ReadableBehind
  <2>4. ~f[w]
    BY <2>1, <2>2, ReadableBehind
  <2> QED BY <2>3, <2>4
<1>3. CASE Unclosed(t, i)
  BY <1>3, UnclosedIsUnread
<1> QED BY <1>1, <1>2, <1>3 DEF Stuck

\* One place of Tokenize, where f has the tokens behind it.
TokPart(t, i, f) ==
    IF i > Len(t) THEN <<L!EofToken(t)>>
    ELSE IF t[i] \in Spaces THEN f[i + 1]
    ELSE IF L!TokenEnd(t, i) = 0 THEN L!LexError
    ELSE LET rest == f[L!TokenEnd(t, i)]
         IN IF rest = L!LexError THEN L!LexError ELSE <<L!TokenAt(t, i)>> \o rest

\* The tokens a text can have.
Tok(t) == {L!TokenAt(t, i) : i \in 1..Len(t)} \cup {L!EofToken(t)}

\* f is the function that Tokenize computes.
Tokens(f, t) ==
    /\ \A i \in 1..(Len(t) + 1) : f[i] \in Seq(Tok(t)) /\ f[i] = TokPart(t, i, f)
    /\ L!Tokenize(t) = f[1]

\* Tokenize has such a function.
LEMMA TokenizeSteps ==
  ASSUME NEW C, NEW t \in Seq(C)
  PROVE  \E f : Tokens(f, t)
<1> DEFINE M == Len(t) + 1
           V == Seq(Tok(t))
           G == [p \in (1..M) \X [1..M -> V] |-> TokPart(t, p[1], p[2])]
<1>1. Len(t) \in Nat /\ M \in Nat /\ <<>> \in V
  BY LenProperties
<1>2. \A k \in 1..M : \A h \in [1..M -> V] : G[<<k, h>>] = TokPart(t, k, h)
  OBVIOUS
<1>3. \A k \in 1..M : ~(k > Len(t)) => k \in 1..Len(t) /\ k + 1 \in (k + 1)..M /\ k + 1 \in 1..M
  BY <1>1
<1>4. \A k \in 1..Len(t) : L!TokenEnd(t, k) # 0 => L!TokenEnd(t, k) \in (k + 1)..M
  BY TokenEndIs DEF TokenIs
<1>5. \A k \in 1..Len(t) : L!TokenEnd(t, k) # 0 => L!TokenEnd(t, k) \in 1..M
  BY <1>1, <1>4
<1>6. ASSUME NEW k \in 1..M, NEW h \in [1..M -> V] PROVE TokPart(t, k, h) \in V
  <2>1. CASE k > Len(t)
    <3>1. L!EofToken(t) \in Tok(t)
      BY DEF Tok
    <3> HIDE DEF M
    <3> QED BY <2>1, <3>1 DEF TokPart
  <2>2. CASE ~(k > Len(t)) /\ t[k] \in Spaces
    <3>1. h[k + 1] \in V
      BY <1>3, <2>2
    <3> QED BY <2>2, <3>1 DEF TokPart
  <2>3. CASE ~(k > Len(t)) /\ t[k] \notin Spaces /\ L!TokenEnd(t, k) = 0
    BY <1>1, <2>3 DEF TokPart, L!LexError
  <2>4. CASE ~(k > Len(t)) /\ t[k] \notin Spaces /\ L!TokenEnd(t, k) # 0
    <3> DEFINE rest == h[L!TokenEnd(t, k)]
    <3>1. rest \in V /\ L!TokenAt(t, k) \in Tok(t)
      BY <1>3, <1>5, <2>4 DEF Tok
    <3>2. TokPart(t, k, h) = IF rest = L!LexError THEN L!LexError ELSE <<L!TokenAt(t, k)>> \o rest
      BY <2>4 DEF TokPart
    <3> HIDE DEF rest
    <3>3. <<L!TokenAt(t, k)>> \o rest \in V
      BY <3>1
    <3> QED BY <1>1, <3>2, <3>3 DEF L!LexError
  <2> QED BY <2>1, <2>2, <2>3, <2>4
<1>7. ASSUME NEW k \in 1..M, NEW h, NEW g, \A j \in (k + 1)..M : h[j] = g[j]
      PROVE  TokPart(t, k, h) = TokPart(t, k, g)
  <2>1. CASE k > Len(t)
    BY <2>1 DEF TokPart
  <2>2. CASE ~(k > Len(t))
    <3>1. h[k + 1] = g[k + 1] /\ (L!TokenEnd(t, k) # 0 => h[L!TokenEnd(t, k)] = g[L!TokenEnd(t, k)])
      BY <1>3, <1>4, <1>7, <2>2
    <3> QED BY <2>2, <3>1 DEF TokPart
  <2> QED BY <2>1, <2>2
<1>8. FillsDown(G, M, V)
  <2>1. ASSUME NEW k \in 1..M, NEW h \in [1..M -> V], NEW g \in [1..M -> V],
               \A j \in (k + 1)..M : h[j] = g[j]
        PROVE  G[<<k, h>>] = G[<<k, g>>]
    <3>1. TokPart(t, k, h) = TokPart(t, k, g)
      <4> HIDE DEF M, V, G
      <4> QED BY <1>7, <2>1
    <3> HIDE DEF G, M, V
    <3> QED BY <1>2, <3>1
  <2> HIDE DEF G, M, V
  <2> QED BY <1>2, <1>6, <2>1 DEF FillsDown
<1> HIDE DEF G, M, V
<1>9. PICK f : IsFilled(f, G, M, V)
  BY <1>1, <1>8, Downward
<1>10. f \in [1..M -> V] /\ \A k \in 1..M : f[k] = TokPart(t, k, f)
  BY <1>2, <1>9 DEF IsFilled
<1>11. f = [k \in 1..M |-> TokPart(t, k, f)]
  BY <1>10
<1> DEFINE Is(r) == r = [i \in 1..(Len(t) + 1) |->
                IF i > Len(t) THEN <<L!EofToken(t)>>
                ELSE IF t[i] \in Spaces THEN r[i + 1]
                ELSE IF L!TokenEnd(t, i) = 0 THEN L!LexError
                ELSE LET rest == r[L!TokenEnd(t, i)]
                     IN IF rest = L!LexError THEN L!LexError ELSE <<L!TokenAt(t, i)>> \o rest]
           found == CHOOSE r : Is(r)
<1>12. Is(found)
  <2>1. Is(f)
    BY <1>11 DEF TokPart, M
  <2> HIDE DEF Is
  <2> QED BY <2>1
<1>13. L!Tokenize(t) = found[1]
  BY DEF L!Tokenize
<1>14. found = [k \in 1..M |-> TokPart(t, k, found)]
  <2> HIDE DEF found
  <2> QED BY <1>12 DEF TokPart, M
<1> HIDE DEF found
<1>15. \A k \in 1..M : found[k] = TokPart(t, k, found)
  BY <1>14
<1> DEFINE T == {k \in 1..M : found[k] = f[k]}
<1>16. ASSUME NEW k \in 1..M, \A j \in (k + 1)..M : j \in T PROVE k \in T
  <2>1. TokPart(t, k, found) = TokPart(t, k, f)
    BY <1>7, <1>16
  <2> QED BY <1>10, <1>15, <2>1
<1>17. \A k \in 1..M : k \in T
  <2> HIDE DEF T
  <2> QED BY <1>1, <1>16, DownTo
<1>18. \A k \in 1..M : found[k] \in V
  BY <1>10, <1>17
<1> QED BY <1>13, <1>15, <1>18 DEF Tokens, M, V

\* The tokens of s but its last one are the longest lexemes from i on, and cover all but
\* spaces.
LexemesFrom(t, i, s) ==
    /\ \A k \in 1..(Len(s) - 1) :
          /\ s[k].first \in i..Len(t)
          /\ s[k].last \in L!LexemeEnds(t, s[k].first)
          /\ \A j \in L!LexemeEnds(t, s[k].first) : j <= s[k].last
          /\ k > 1 => s[k - 1].last < s[k].first
    /\ \A p \in i..Len(t) : t[p] \in Spaces \/
          \E k \in 1..(Len(s) - 1) : p \in s[k].first..s[k].last

\* A space before them changes nothing.
LEMMA LexemesBeforeSpace ==
  ASSUME NEW C, NEW t \in Seq(C), NEW i \in 1..Len(t), t[i] \in Spaces, NEW s,
         LexemesFrom(t, i + 1, s)
  PROVE  LexemesFrom(t, i, s)
<1>1. Len(t) \in Nat /\ \A p \in (i + 1)..Len(t) : p \in i..Len(t)
  BY LenProperties
<1>2. \A p \in i..Len(t) : p = i \/ p \in (i + 1)..Len(t)
  BY <1>1
<1> QED BY <1>1, <1>2 DEF LexemesFrom

\* Nor does a longest lexeme whose token is put before them.
LEMMA LexemesGoOn ==
  ASSUME NEW C, NEW t \in Seq(C), NEW i \in 1..Len(t), NEW e \in (i + 1)..(Len(t) + 1),
         Longest(t, i, e), NEW V, NEW s \in Seq(V), s # <<>>, NEW tok \in V,
         tok.first = i, tok.last = e - 1, LexemesFrom(t, e, s)
  PROVE  LexemesFrom(t, i, <<tok>> \o s)
<1> DEFINE r == <<tok>> \o s
           n == Len(s)
           N == Len(t)
<1>1. n \in Nat /\ n >= 1 /\ Len(r) = n + 1 /\ r[1] = tok
  BY LenProperties, EmptySeq
<1>2. ASSUME NEW k \in 2..n PROVE r[k] = s[k - 1] /\ k - 1 \in 1..(n - 1)
  <2>1. k \in 1..(n + 1) /\ k - 1 \in 1..(n - 1)
    BY <1>1
  <2> QED BY <1>1, <2>1
<1>3. N \in Nat /\ i \in 1..N /\ i \in i..N
  BY LenProperties
<1>4. e - 1 \in L!LexemeEnds(t, i) /\ \A j \in L!LexemeEnds(t, i) : j <= e - 1
  BY DEF Longest
<1>5. \A k \in 1..(n - 1) :
          /\ s[k].first \in e..N
          /\ s[k].last \in L!LexemeEnds(t, s[k].first)
          /\ \A j \in L!LexemeEnds(t, s[k].first) : j <= s[k].last
          /\ k > 1 => s[k - 1].last < s[k].first
  BY DEF LexemesFrom
<1>6. \A p \in e..N : t[p] \in Spaces \/
          \E k \in 1..(n - 1) : p \in s[k].first..s[k].last
  BY DEF LexemesFrom
<1> HIDE DEF r, n, N
<1>7. ASSUME NEW k \in 1..n
      PROVE  /\ r[k].first \in i..N
             /\ r[k].last \in L!LexemeEnds(t, r[k].first)
             /\ \A j \in L!LexemeEnds(t, r[k].first) : j <= r[k].last
             /\ k > 1 => r[k - 1].last < r[k].first
  <2>1. CASE k = 1
    BY <1>1, <1>3, <1>4, <2>1
  <2>2. CASE k # 1
    <3>1. k \in 2..n /\ k - 1 \in 1..(n - 1)
      BY <1>1, <2>2
    <3>2. r[k] = s[k - 1]
      BY <1>2, <3>1
    <3>3. s[k - 1].first \in i..N /\ s[k - 1].first >= e
      <4>1. s[k - 1].first \in e..N
        BY <1>5, <3>1
      <4> QED BY <1>3, <4>1
    <3>4. r[k - 1].last < r[k].first
      <4>1. CASE k = 2
        BY <1>1, <1>3, <3>2, <3>3, <4>1
      <4>2. CASE k # 2
        <5>1. k - 1 \in 2..n /\ k - 1 > 1 /\ (k - 1) - 1 = k - 2
          BY <1>1, <3>1, <4>2
        <5>2. r[k - 1] = s[k - 2]
          BY <1>2, <5>1
        <5> QED BY <1>5, <3>1, <3>2, <5>1, <5>2
      <4> QED BY <4>1, <4>2
    <3> QED BY <1>5, <3>1, <3>2, <3>3, <3>4
  <2> QED BY <2>1, <2>2
<1>8. ASSUME NEW p \in i..N
      PROVE  t[p] \in Spaces \/ \E k \in 1..n : p \in r[k].first..r[k].last
  <2>1. CASE p <= e - 1
    <3>1. p \in r[1].first..r[1].last /\ 1 \in 1..n
      BY <1>1, <1>3, <2>1
    <3> QED BY <3>1
  <2>2. CASE ~(p <= e - 1)
    <3>1. p \in e..N
      BY <1>3, <2>2
    <3> SUFFICES ASSUME t[p] \notin Spaces PROVE \E k \in 1..n : p \in r[k].first..r[k].last
      OBVIOUS
    <3>2. PICK k \in 1..(n - 1) : p \in s[k].first..s[k].last
      BY <1>6, <3>1
    <3>3. k + 1 \in 2..n /\ k + 1 \in 1..n /\ (k + 1) - 1 = k
      BY <1>1
    <3>4. r[k + 1] = s[k]
      BY <1>2, <3>3
    <3> QED BY <3>2, <3>3, <3>4
  <2> QED BY <2>1, <2>2
<1>9. Len(r) - 1 = n
  BY <1>1
<1> QED BY <1>7, <1>8, <1>9 DEF LexemesFrom, N, r

\* The tokens from i on are none exactly if nothing can be read from i on.
TokensAt(t, i, f, s) ==
    /\ s = <<>> <=> ~f[i]
    /\ s # <<>> => LexemesFrom(t, i, s)

\* So it is at every place, from the end of the text down.
LEMMA TokensAtEach ==
  ASSUME NEW C, NEW t \in Seq(C), NEW f, Reads(f, t), NEW g, Tokens(g, t)
  PROVE  \A i \in 1..(Len(t) + 1) : TokensAt(t, i, f, g[i])
<1> DEFINE N == Len(t)
           T == {i \in 1..(N + 1) : TokensAt(t, i, f, g[i])}
<1>1. N \in Nat /\ N + 1 \in Nat
  BY LenProperties
<1>2. ASSUME NEW i \in 1..(N + 1), \A j \in (i + 1)..(N + 1) : j \in T PROVE TokensAt(t, i, f, g[i])
  <2>1. g[i] = TokPart(t, i, g) /\ g[i] \in Seq(Tok(t)) /\ f[i] = ReadPart(t, i, f)
    BY DEF Tokens, Reads
  <2>2. CASE i > Len(t)
    <3>1. f[i]
      BY <2>1, <2>2 DEF ReadPart
    <3>2. g[i] = <<L!EofToken(t)>>
      BY <2>1, <2>2 DEF TokPart
    <3> DEFINE last == L!EofToken(t)
    <3> HIDE DEF last
    <3>3. <<last>> # <<>> /\ Len(<<last>>) - 1 = 0 /\ 1..0 = {}
      OBVIOUS
    <3>4. i..Len(t) = {}
      BY <1>1, <2>2
    <3> QED BY <3>1, <3>2, <3>3, <3>4 DEF TokensAt, LexemesFrom, last
  <2>3. CASE ~(i > Len(t)) /\ t[i] \in Spaces
    <3>1. i \in 1..Len(t) /\ i + 1 \in (i + 1)..(N + 1)
      BY <1>1, <2>3
    <3>2. g[i] = g[i + 1] /\ f[i] = f[i + 1]
      BY <2>1, <2>3, <3>1, ReadableBehind DEF TokPart
    <3>3. TokensAt(t, i + 1, f, g[i + 1])
      BY <1>2, <3>1
    <3>4. LexemesFrom(t, i + 1, g[i]) => LexemesFrom(t, i, g[i])
      BY <2>3, <3>1, LexemesBeforeSpace
    <3> QED BY <3>2, <3>3, <3>4 DEF TokensAt
  <2>4. CASE ~(i > Len(t)) /\ t[i] \notin Spaces
    <3> DEFINE e == L!TokenEnd(t, i)
    <3>1. i \in 1..Len(t)
      BY <1>1, <2>4
    <3>2. TokenIs(t, i, e)
      BY <3>1, TokenEndIs
    <3>3. CASE e = 0
      <4>1. g[i] = <<>>
        BY <2>1, <2>4, <3>3 DEF TokPart, L!LexError
      <4>2. ~(e \in (i + 1)..(Len(t) + 1))
        BY <3>1, <3>3
      <4>3. Stuck(t, i)
        BY <3>2, <4>2 DEF TokenIs
      <4>4. ~f[i]
        BY <2>4, <3>1, <4>3, StuckIsUnread
      <4> QED BY <4>1, <4>4 DEF TokensAt
    <3>4. CASE e # 0
      <4>1. e \in (i + 1)..(Len(t) + 1) /\ Longest(t, i, e)
        BY <3>2, <3>4 DEF TokenIs
      <4>2. f[i] = f[e]
        BY <3>1, <4>1, ReadableBehind
      <4>3. TokensAt(t, e, f, g[e])
        BY <1>2, <4>1
      <4>4. g[i] = IF g[e] = <<>> THEN <<>> ELSE <<L!TokenAt(t, i)>> \o g[e]
        BY <2>1, <2>4, <3>4 DEF TokPart, L!LexError
      <4>5. CASE g[e] = <<>>
        BY <4>2, <4>3, <4>4, <4>5 DEF TokensAt
      <4>6. CASE g[e] # <<>>
        <5> DEFINE tok == L!TokenAt(t, i)
        <5>1. tok.first = i /\ tok.last = e - 1
          BY DEF L!TokenAt
        <5>2. tok \in Tok(t)
          BY <3>1 DEF Tok
        <5>3. e \in 1..(Len(t) + 1)
          BY <3>1, <4>1
        <5>4. g[e] \in Seq(Tok(t))
          BY <5>3 DEF Tokens
        <5> HIDE DEF tok, e
        <5>5. LexemesFrom(t, i, <<tok>> \o g[e])
          BY <3>1, <4>1, <4>3, <4>6, <5>1, <5>2, <5>4, LexemesGoOn DEF TokensAt
        <5>6. <<tok>> \o g[e] # <<>>
          BY <5>2, <5>4
        <5> QED BY <4>2, <4>3, <4>4, <4>6, <5>5, <5>6 DEF TokensAt, tok
      <4> QED BY <4>5, <4>6
    <3> QED BY <3>3, <3>4
  <2> QED BY <2>2, <2>3, <2>4
<1>3. \A i \in 1..(N + 1) : i \in T
  <2> HIDE DEF N
  <2>1. ASSUME NEW i \in 1..(N + 1), \A j \in (i + 1)..(N + 1) : j \in T PROVE i \in T
    BY <1>2, <2>1
  <2> HIDE DEF T
  <2> QED BY <1>1, <2>1, DownTo
<1> QED BY <1>3

\* The lexer reads a text exactly if it is one of lexemes, and then into those.
LEMMA LexemesRead ==
  ASSUME NEW C, NEW t \in Seq(C)
  PROVE  IF L!Tokenize(t) = L!LexError THEN ~L!IsReadable(t)
         ELSE L!IsReadable(t) /\ L!IsMaximalMunch(t)
<1>1. PICK f : Reads(f, t)
  BY ReadableSteps
<1>2. PICK g : Tokens(g, t)
  BY TokenizeSteps
<1>3. 1 \in 1..(Len(t) + 1) /\ Len(t) \in Nat /\ DOMAIN t = 1..Len(t)
  BY LenProperties
<1>4. L!IsReadable(t) = f[1] /\ L!Tokenize(t) = g[1] /\ g[1] \in Seq(Tok(t))
  BY <1>1, <1>2, <1>3 DEF Reads, Tokens
<1>5. TokensAt(t, 1, f, g[1])
  BY <1>1, <1>2, <1>3, TokensAtEach
<1> DEFINE s == g[1]
<1>6. CASE s = <<>>
  BY <1>4, <1>5, <1>6 DEF TokensAt, L!LexError
<1>7. CASE s # <<>>
  <2> DEFINE front == L!Front(s)
  <2>1. f[1] /\ LexemesFrom(t, 1, s)
    BY <1>5, <1>7 DEF TokensAt
  <2> HIDE DEF s
  <2>2. s \in Seq(Tok(t)) /\ Len(s) \in Nat /\ Len(s) >= 1
    BY <1>4, <1>7, LenProperties, EmptySeq DEF s
  <2>3. DOMAIN front = 1..(Len(s) - 1) /\ \A k \in 1..(Len(s) - 1) : front[k] = s[k]
    BY <2>2 DEF L!Front
  <2>4. front = L!Front(L!Tokenize(t))
    BY <1>4 DEF s
  <2> HIDE DEF front
  <2>5. \A i \in DOMAIN t \ UNION {front[k].first..front[k].last : k \in DOMAIN front} : t[i] \in Spaces
    BY <1>3, <2>1, <2>3 DEF LexemesFrom
  <2>6. \A k \in DOMAIN front :
             /\ k > 1 => front[k - 1].last < front[k].first
             /\ front[k].last \in L!LexemeEnds(t, front[k].first)
             /\ \A j \in L!LexemeEnds(t, front[k].first) : j <= front[k].last
    <3> SUFFICES ASSUME NEW k \in 1..(Len(s) - 1)
                 PROVE  /\ k > 1 => front[k - 1].last < front[k].first
                        /\ front[k].last \in L!LexemeEnds(t, front[k].first)
                        /\ \A j \in L!LexemeEnds(t, front[k].first) : j <= front[k].last
      BY <2>3
    <3>1. k > 1 => k - 1 \in 1..(Len(s) - 1)
      BY <2>2
    <3> QED BY <2>1, <2>3, <3>1 DEF LexemesFrom
  <2>7. L!IsMaximalMunch(t)
    BY <2>4, <2>5, <2>6 DEF L!IsMaximalMunch
  <2> QED BY <1>4, <1>7, <2>1, <2>7 DEF s, L!LexError
<1> QED BY <1>6, <1>7

-----------------------------------------------------------------------------
(* Quoted values.                                                          *)

\* A sequence flattened so far is a prefix of all of it flattened.
LEMMA FlattenKeeps ==
  ASSUME NEW A, NEW s \in Seq(Seq(A)), NEW f, Flattens(f, s, A)
  PROVE  \A n \in 0..Len(s) :
            /\ Len(f[n]) <= Len(f[Len(s)])
            /\ \A k \in 1..Len(f[n]) : f[Len(s)][k] = f[n][k]
<1> DEFINE N == Len(s)
           last == f[N]
           Kept(n) == Len(f[n]) <= Len(last) /\ \A k \in 1..Len(f[n]) : last[k] = f[n][k]
           T == {m \in 0..N : Kept(N - m)}
<1>1. N \in Nat /\ \A i \in 1..N : s[i] \in Seq(A)
  BY LenProperties, ElementOfSeq
<1>2. /\ \A n \in 0..N : f[n] \in Seq(A)
      /\ \A i \in 1..N : f[i] = f[i - 1] \o s[i]
  BY DEF Flattens
<1> HIDE DEF N
<1>3. 0 \in T
  <2>1. N - 0 = N /\ 0 \in 0..N /\ N \in 0..N
    BY <1>1
  <2>2. Len(last) \in Nat
    BY <1>2, <2>1, LenProperties
  <2> QED BY <2>1, <2>2
<1>4. ASSUME NEW m \in 1..N, m - 1 \in T PROVE m \in T
  <2> DEFINE n == N - m
  <2>1. n \in 0..N /\ n + 1 \in 1..N /\ N - (m - 1) = n + 1 /\ (n + 1) - 1 = n /\ m \in 0..N
    BY <1>1
  <2>2. Kept(n + 1)
    BY <1>4, <2>1
  <2>3. f[n] \in Seq(A) /\ f[n + 1] = f[n] \o s[n + 1] /\ s[n + 1] \in Seq(A)
    BY <1>1, <1>2, <2>1
  <2>4. Len(last) \in Nat
    BY <1>1, <1>2, LenProperties
  <2> DEFINE old == f[n]
             new == f[n + 1]
             more == s[n + 1]
             l == Len(old)
             k1 == Len(more)
             l1 == Len(new)
             top == Len(last)
  <2> HIDE DEF last, n, old, new, more
  <2>5. /\ l \in Nat /\ k1 \in Nat /\ l1 = l + k1
        /\ \A k \in 1..l : new[k] = old[k]
    <3>1. old \in Seq(A) /\ new = old \o more /\ more \in Seq(A)
      BY <2>3 DEF old, new, more
    <3> QED BY <3>1, LenProperties
  <2>6. l1 <= top /\ top \in Nat /\ \A k \in 1..l1 : last[k] = new[k]
    BY <2>2, <2>4 DEF new
  <2> HIDE DEF l, k1, l1, top
  <2>7. l <= top /\ \A k \in 1..l : k \in 1..l1
    BY <2>5, <2>6
  <2>8. Kept(n)
    <3>1. l <= top /\ \A k \in 1..l : last[k] = old[k]
      BY <2>5, <2>6, <2>7
    <3> QED BY <3>1 DEF l, top, old
  <2> QED BY <2>1, <2>8 DEF n
<1>5. \A m \in 0..N : m \in T
  <2> HIDE DEF T
  <2> QED BY <1>1, <1>3, <1>4, UpTo
<1>6. \A n \in 0..N : N - n \in 0..N /\ N - (N - n) = n
  BY <1>1
<1>7. \A n \in 0..N : Kept(n)
  BY <1>5, <1>6
<1> QED BY <1>7 DEF N

\* q has the place in t, the literal of v, of each character of v and of the closing quote.
LaidOut(v, t, q) ==
    /\ q \in [0..Len(v) -> Nat]
    /\ q[0] = 2 /\ q[Len(v)] = Len(t)
    /\ t[1] = L!Quote /\ t[Len(t)] = L!Quote
    /\ \A n \in 1..Len(v) :
          /\ q[n] <= Len(t) /\ q[n - 1] >= 2
          /\ v[n] = L!Quote =>
                /\ q[n] = q[n - 1] + 2
                /\ t[q[n - 1]] = L!Quote /\ t[q[n - 1] + 1] = L!Quote
          /\ v[n] # L!Quote => q[n] = q[n - 1] + 1 /\ t[q[n - 1]] = v[n]

\* The literal of v is laid out so.
LEMMA QuotedIs ==
  ASSUME NEW C, L!Quote \in C, NEW v \in Seq(C)
  PROVE  L!Quoted(v) \in Seq(C) /\ \E q : LaidOut(v, L!Quoted(v), q)
<1> DEFINE Q == L!Quote
           E == [i \in DOMAIN v |-> IF v[i] = Q THEN <<Q, Q>> ELSE <<v[i]>>]
           t == L!Quoted(v)
           n0 == Len(v)
<1>1. n0 \in Nat /\ DOMAIN v = 1..n0 /\ \A i \in 1..n0 : v[i] \in C
  BY LenProperties, ElementOfSeq
<1>2. E \in Seq(Seq(C)) /\ Len(E) = n0 /\ DOMAIN E = 1..n0
  <2>1. \A i \in 1..n0 : E[i] \in Seq(C)
    BY <1>1
  <2> QED BY <1>1, <2>1, FunctionIsSeq
<1>3. \A i \in 1..n0 :
         /\ v[i] = Q => Len(E[i]) = 2 /\ E[i][1] = Q /\ E[i][2] = Q
         /\ v[i] # Q => Len(E[i]) = 1 /\ E[i][1] = v[i]
  BY <1>1
<1>4. t = <<Q>> \o FlattenSeq(E) \o <<Q>>
  BY DEF L!Quoted, L!FlattenSeq, FlattenSeq
<1> HIDE DEF E, t, n0, Q
<1>5. PICK f : Flattens(f, E, C)
  BY <1>2, FlattenSteps
<1> DEFINE b == f[n0]
           q == [n \in 0..n0 |-> Len(f[n]) + 2]
<1>6. /\ \A n \in 0..n0 : f[n] \in Seq(C)
      /\ f[0] = <<>> /\ \A n \in 1..n0 : f[n] = f[n - 1] \o E[n]
      /\ FlattenSeq(E) = b
  BY <1>2, <1>5 DEF Flattens
<1>7. \A n \in 0..n0 : Len(f[n]) <= Len(b) /\ \A k \in 1..Len(f[n]) : b[k] = f[n][k]
  BY <1>2, <1>5, FlattenKeeps
<1>8. \A n \in 0..n0 : Len(f[n]) \in Nat
  BY <1>6, LenProperties
<1>9. b \in Seq(C) /\ Len(b) \in Nat /\ 0 \in 0..n0 /\ n0 \in 0..n0
  BY <1>1, <1>6, <1>8
<1> HIDE DEF b
<1>10. t \in Seq(C)
  BY <1>4, <1>6, <1>9 DEF Q
<1>11. /\ Len(t) = Len(b) + 2 /\ t[1] = Q /\ t[Len(b) + 2] = Q
       /\ \A k \in 1..Len(b) : t[k + 1] = b[k]
  BY <1>4, <1>6, <1>9
<1>12. q \in [0..n0 -> Nat] /\ \A n \in 0..n0 : q[n] = Len(f[n]) + 2
  BY <1>8
<1>13. q[0] = 2 /\ q[n0] = Len(t)
  <2>1. Len(f[0]) = 0
    BY <1>6, EmptySeq
  <2> QED BY <1>9, <1>11, <1>12, <2>1 DEF b
<1> HIDE DEF q
<1>14. ASSUME NEW n \in 1..n0
       PROVE  /\ q[n] <= Len(t) /\ q[n - 1] >= 2
              /\ v[n] = Q => /\ q[n] = q[n - 1] + 2
                             /\ t[q[n - 1]] = Q /\ t[q[n - 1] + 1] = Q
              /\ v[n] # Q => q[n] = q[n - 1] + 1 /\ t[q[n - 1]] = v[n]
  <2> DEFINE old == f[n - 1]
             new == f[n]
             m == Len(old)
             ee == Len(E[n])
             nn == Len(new)
             bb == Len(b)
  <2>1. n \in 0..n0 /\ n - 1 \in 0..n0
    BY <1>1
  <2>2. old \in Seq(C) /\ new \in Seq(C) /\ m \in Nat /\ new = old \o E[n] /\ E[n] \in Seq(C)
    BY <1>2, <1>6, <1>8, <2>1, ElementOfSeq
  <2>3. q[n - 1] = m + 2 /\ q[n] = Len(new) + 2 /\ Len(new) <= Len(b)
    BY <1>7, <1>12, <2>1
  <2>4. \A k \in 1..Len(new) : b[k] = new[k]
    BY <1>7, <2>1
  <2> HIDE DEF old, new
  <2>5. /\ m \in Nat /\ ee \in Nat /\ bb \in Nat /\ nn = m + ee /\ nn <= bb
        /\ q[n - 1] = m + 2 /\ q[n] = nn + 2 /\ Len(t) = bb + 2
        /\ \A k \in 1..ee : new[m + k] = E[n][k]
    BY <1>9, <1>11, <2>2, <2>3, LenProperties
  <2>6. \A k \in 1..nn : b[k] = new[k]
    BY <2>4
  <2>7. \A k \in 1..bb : t[k + 1] = b[k]
    BY <1>11
  <2>8. \A k \in 1..ee : t[m + 1 + k] = E[n][k]
    <3> SUFFICES ASSUME NEW k \in 1..ee PROVE t[m + 1 + k] = E[n][k]
      OBVIOUS
    <3> HIDE DEF m, ee, nn, bb
    <3>1. m + k \in 1..nn /\ m + k \in 1..bb /\ (m + k) + 1 = m + 1 + k
      BY <2>5
    <3> QED BY <2>5, <2>6, <2>7, <3>1
  <2>9. q[n] <= Len(t) /\ q[n - 1] >= 2
    <3> HIDE DEF m, ee, nn, bb
    <3> QED BY <2>5
  <2>10. /\ v[n] = Q => ee = 2 /\ E[n][1] = Q /\ E[n][2] = Q
         /\ v[n] # Q => ee = 1 /\ E[n][1] = v[n]
    BY <1>3
  <2> HIDE DEF m, ee, nn, bb
  <2>11. CASE v[n] = Q
    <3>1. ee = 2 /\ 1 \in 1..ee /\ 2 \in 1..ee /\ E[n][1] = Q /\ E[n][2] = Q
      BY <2>10, <2>11
    <3>2. t[m + 1 + 1] = Q /\ t[m + 1 + 2] = Q
      BY <2>8, <3>1
    <3>3. m + 1 + 1 = q[n - 1] /\ m + 1 + 2 = q[n - 1] + 1 /\ q[n] = q[n - 1] + 2
      BY <2>5, <3>1
    <3> QED BY <2>9, <2>11, <3>2, <3>3
  <2>12. CASE v[n] # Q
    <3>1. ee = 1 /\ 1 \in 1..ee /\ E[n][1] = v[n]
      BY <2>10, <2>12
    <3>2. t[m + 1 + 1] = v[n]
      BY <2>8, <3>1
    <3>3. m + 1 + 1 = q[n - 1] /\ q[n] = q[n - 1] + 1
      BY <2>5, <3>1
    <3> QED BY <2>9, <2>12, <3>2, <3>3
  <2> QED BY <2>11, <2>12
<1>15. t[Len(t)] = Q
  BY <1>11
<1>16. LaidOut(v, t, q)
  BY <1>11, <1>12, <1>13, <1>14, <1>15 DEF LaidOut, n0, Q
<1> QED BY <1>10, <1>16 DEF t

\* The literal of v is one string, to its end.
LEMMA LiteralIsString ==
  ASSUME NEW C, NEW v \in Seq(C), NEW t \in Seq(C), NEW q, LaidOut(v, t, q)
  PROVE  Len(t) \in Nat /\ Len(t) >= 2 /\ StringIn(t, 1, Len(t))
<1> DEFINE n0 == Len(v)
           N == Len(t)
           T == {n \in 0..n0 : q[n] >= 2 /\ EvenRuns(t, 2, q[n] - 1)}
<1>1. n0 \in Nat /\ N \in Nat
  BY LenProperties
<1>2. /\ \A n \in 0..n0 : q[n] \in Nat
      /\ q[0] = 2 /\ q[n0] = N /\ t[1] = L!Quote /\ t[N] = L!Quote
      /\ \A n \in 1..n0 :
          /\ v[n] = L!Quote =>
                /\ q[n] = q[n - 1] + 2
                /\ t[q[n - 1]] = L!Quote /\ t[q[n - 1] + 1] = L!Quote
          /\ v[n] # L!Quote => q[n] = q[n - 1] + 1 /\ t[q[n - 1]] = v[n]
  BY DEF LaidOut
<1> HIDE DEF n0, N
<1>3. 0 \in T
  <2>1. EvenRuns(t, 2, 2 - 1)
    BY DEF EvenRuns
  <2> QED BY <1>1, <1>2, <2>1
<1>4. ASSUME NEW n \in 1..n0, n - 1 \in T PROVE n \in T
  <2> DEFINE j == q[n - 1]
  <2>1. n \in 0..n0 /\ n - 1 \in 0..n0
    BY <1>1
  <2>2. j \in Int /\ j >= 2 /\ EvenRuns(t, 2, j - 1)
    BY <1>2, <1>4, <2>1
  <2> HIDE DEF j
  <2>3. /\ t[j] # L!Quote => EvenRuns(t, 2, j)
        /\ t[j] = L!Quote /\ t[j + 1] = L!Quote => EvenRuns(t, 2, j + 1)
    BY <2>2, EvenGrows
  <2>4. CASE v[n] = L!Quote
    <3>1. q[n] = j + 2 /\ t[j] = L!Quote /\ t[j + 1] = L!Quote
      BY <1>2, <2>4 DEF j
    <3>2. q[n] - 1 = j + 1 /\ q[n] >= 2
      BY <2>2, <3>1
    <3> QED BY <2>1, <2>3, <3>1, <3>2
  <2>5. CASE v[n] # L!Quote
    <3>1. q[n] = j + 1 /\ t[j] # L!Quote
      BY <1>2, <2>5 DEF j
    <3>2. q[n] - 1 = j /\ q[n] >= 2
      BY <2>2, <3>1
    <3> QED BY <2>1, <2>3, <3>1, <3>2
  <2> QED BY <2>4, <2>5
<1>5. \A n \in 0..n0 : n \in T
  <2> HIDE DEF T
  <2> QED BY <1>1, <1>3, <1>4, UpTo
<1>6. n0 \in 0..n0 /\ 1 + 1 = 2
  BY <1>1
<1>7. N >= 2 /\ EvenRuns(t, 2, N - 1)
  BY <1>2, <1>5, <1>6
<1>8. 1 < N
  BY <1>1, <1>7
<1> QED BY <1>1, <1>2, <1>6, <1>7, <1>8 DEF StringIn, N

\* Such a text is one token.
LEMMA LiteralEnds ==
  ASSUME NEW C, NEW t \in Seq(C), Len(t) >= 2, StringIn(t, 1, Len(t))
  PROVE  L!TokenEnd(t, 1) = Len(t) + 1
<1> DEFINE N == Len(t)
<1>1. N \in Nat /\ 1 \in 1..N /\ 1 + 1 = 2 /\ 2 \in Nat
  BY LenProperties
<1>2. t[1] = L!Quote /\ t[N] = L!Quote /\ EvenRuns(t, 2, N - 1)
  BY <1>1 DEF StringIn
<1>3. L!TokenEnd(t, 1) = L!StringEnd(t, 1)
  BY <1>1, <1>2, TokenCases
<1>4. ~Unclosed(t, 1)
  <2> SUFFICES ASSUME Unclosed(t, 1) PROVE FALSE
    OBVIOUS
  <2>1. EvenRuns(t, 2, N)
    BY <1>1 DEF Unclosed
  <2>2. OddAt(t, 2, N)
    <3>1. N \in Int /\ N >= 2
      BY <1>1
    <3> HIDE DEF N
    <3> QED BY <1>1, <1>2, <3>1, EvenGrows
  <2>3. N \in 2..N /\ ~(N < N)
    BY <1>1
  <2> HIDE DEF N
  <2> QED BY <2>1, <2>2, <2>3 DEF EvenRuns
<1>5. PICK j \in 2..N : L!StringEnd(t, 1) = j + 1 /\ StringIn(t, 1, j) /\ L!At(t, j + 1) # L!Quote
  BY <1>1, <1>2, <1>4, StringEndIs
<1>6. j = N
  <2> SUFFICES ASSUME j # N PROVE FALSE
    OBVIOUS
  <2>1. N \in (j + 1)..N /\ j \in (1 + 1)..N
    BY <1>1
  <2> QED BY <1>1, <1>5, <2>1, StringLongest
<1> QED BY <1>3, <1>5, <1>6

\* One place of StringValue, where f has the value behind it.
ValuePart(t, j, f) ==
    IF j >= (Len(t) + 1) - 1 THEN <<>>
    ELSE <<t[j]>> \o f[IF t[j] = L!Quote THEN j + 2 ELSE j + 1]

\* f is the function that StringValue computes.
ValueParts(f, t) ==
    /\ \A j \in 2..(Len(t) + 1) : f[j] = ValuePart(t, j, f)
    /\ L!StringValue(t, 1, Len(t) + 1) = f[2]

\* StringValue has such a function.
LEMMA ValueSteps ==
  ASSUME NEW C, NEW t \in Seq(C), Len(t) >= 2
  PROVE  \E f : ValueParts(f, t)
<1> DEFINE M == Len(t) + 1
           V == Seq(C)
           G == [p \in (1..M) \X [1..M -> V] |-> ValuePart(t, p[1], p[2])]
           After(k) == IF t[k] = L!Quote THEN k + 2 ELSE k + 1
<1>1. Len(t) \in Nat /\ M \in Nat /\ <<>> \in V /\ \A k \in 1..Len(t) : t[k] \in C
  BY LenProperties, ElementOfSeq
<1>2. \A k \in 1..M : \A h \in [1..M -> V] : G[<<k, h>>] = ValuePart(t, k, h)
  OBVIOUS
<1>3. \A k \in 1..M : ~(k >= M - 1) => k \in 1..Len(t) /\ After(k) \in (k + 1)..M /\ After(k) \in 1..M
  BY <1>1
<1>4. \A k, h : ValuePart(t, k, h) = IF k >= M - 1 THEN <<>> ELSE <<t[k]>> \o h[After(k)]
  BY DEF ValuePart
<1> HIDE DEF M, After
<1>5. ASSUME NEW k \in 1..M, NEW h \in [1..M -> V] PROVE ValuePart(t, k, h) \in V
  <2>1. CASE k >= M - 1
    BY <1>1, <1>4, <2>1
  <2>2. CASE ~(k >= M - 1)
    <3> DEFINE rest == h[After(k)]
    <3>1. rest \in V /\ t[k] \in C
      BY <1>1, <1>3, <2>2
    <3>2. ValuePart(t, k, h) = <<t[k]>> \o rest
      BY <1>4, <2>2
    <3> HIDE DEF rest
    <3> QED BY <3>1, <3>2
  <2> QED BY <2>1, <2>2
<1>6. ASSUME NEW k \in 1..M, NEW h, NEW g, \A j \in (k + 1)..M : h[j] = g[j]
      PROVE  ValuePart(t, k, h) = ValuePart(t, k, g)
  <2>1. CASE k >= M - 1
    BY <1>4, <2>1
  <2>2. CASE ~(k >= M - 1)
    <3>1. h[After(k)] = g[After(k)]
      BY <1>3, <1>6, <2>2
    <3> QED BY <1>4, <2>2, <3>1
  <2> QED BY <2>1, <2>2
<1>7. FillsDown(G, M, V)
  <2>1. ASSUME NEW k \in 1..M, NEW h \in [1..M -> V], NEW g \in [1..M -> V],
               \A j \in (k + 1)..M : h[j] = g[j]
        PROVE  G[<<k, h>>] = G[<<k, g>>]
    <3>1. ValuePart(t, k, h) = ValuePart(t, k, g)
      <4> HIDE DEF V, G
      <4> QED BY <1>6, <2>1
    <3> HIDE DEF G, V
    <3> QED BY <1>2, <3>1
  <2> HIDE DEF G, V
  <2> QED BY <1>2, <1>5, <2>1 DEF FillsDown
<1> HIDE DEF G, V
<1>8. PICK g : IsFilled(g, G, M, V)
  BY <1>1, <1>7, Downward
<1>9. \A k \in 1..M : g[k] = ValuePart(t, k, g)
  BY <1>2, <1>8 DEF IsFilled
<1> DEFINE Is(value) == value = [j \in (1 + 1)..(Len(t) + 1) |->
                IF j >= (Len(t) + 1) - 1 THEN <<>>
                ELSE <<t[j]>> \o value[IF t[j] = L!Quote THEN j + 2 ELSE j + 1]]
           found == CHOOSE value : Is(value)
           h == [j \in 2..M |-> g[j]]
<1>10. Is(h)
  <2>1. ASSUME NEW j \in 2..M PROVE h[j] = ValuePart(t, j, h)
    <3>1. j \in 1..M /\ \A k \in (j + 1)..M : k \in 2..M
      BY <1>1
    <3>2. \A k \in (j + 1)..M : g[k] = h[k]
      BY <3>1
    <3>3. h[j] = g[j]
      OBVIOUS
    <3> HIDE DEF h
    <3>4. ValuePart(t, j, g) = ValuePart(t, j, h)
      BY <1>6, <3>1, <3>2
    <3> QED BY <1>9, <3>1, <3>3, <3>4
  <2>2. h = [j \in 2..M |-> h[j]]
    OBVIOUS
  <2> HIDE DEF h
  <2>3. h = [j \in 2..M |-> ValuePart(t, j, h)]
    BY <2>1, <2>2
  <2>4. 1 + 1 = 2
    OBVIOUS
  <2> QED BY <2>3, <2>4 DEF ValuePart, M
<1>11. Is(found)
  <2> HIDE DEF Is, h
  <2> QED BY <1>10
<1>12. L!StringValue(t, 1, Len(t) + 1) = found[1 + 1]
  BY DEF L!StringValue
<1> HIDE DEF found
<1>13. \A j \in (1 + 1)..(Len(t) + 1) : found[j] = ValuePart(t, j, found)
  BY <1>11 DEF ValuePart
<1>14. 1 + 1 = 2
  OBVIOUS
<1> QED BY <1>12, <1>13, <1>14 DEF ValueParts

\* The value of the literal of v is v.
LEMMA LiteralValue ==
  ASSUME NEW C, NEW v \in Seq(C), NEW t \in Seq(C), NEW q, LaidOut(v, t, q), Len(t) >= 2
  PROVE  L!StringValue(t, 1, Len(t) + 1) = v
<1> DEFINE n0 == Len(v)
           N == Len(t)
<1>1. n0 \in Nat /\ N \in Nat /\ DOMAIN v = 1..n0 /\ \A n \in 1..n0 : v[n] \in C
  BY LenProperties, ElementOfSeq
<1>2. PICK f : ValueParts(f, t)
  BY ValueSteps
<1>3. /\ \A j \in 2..(N + 1) : f[j] = ValuePart(t, j, f)
      /\ L!StringValue(t, 1, N + 1) = f[2]
  BY <1>2 DEF ValueParts
<1>4. /\ \A n \in 0..n0 : q[n] \in Nat
      /\ q[0] = 2 /\ q[n0] = N
      /\ \A n \in 1..n0 :
          /\ q[n] <= N /\ q[n - 1] >= 2
          /\ v[n] = L!Quote => q[n] = q[n - 1] + 2 /\ t[q[n - 1]] = L!Quote
          /\ v[n] # L!Quote => q[n] = q[n - 1] + 1 /\ t[q[n - 1]] = v[n]
  BY DEF LaidOut
<1>5. \A j : ValuePart(t, j, f) =
         IF j >= (N + 1) - 1 THEN <<>> ELSE <<t[j]>> \o f[IF t[j] = L!Quote THEN j + 2 ELSE j + 1]
  BY DEF ValuePart
<1> DEFINE Rest(n) ==
              /\ f[q[n]] \in Seq(C) /\ Len(f[q[n]]) = n0 - n
              /\ \A m \in 1..(n0 - n) : f[q[n]][m] = v[n + m]
           T == {m \in 0..n0 : Rest(n0 - m)}
<1> HIDE DEF n0, N
<1>6. 0 \in T
  <2>1. n0 - 0 = n0 /\ 0 \in 0..n0 /\ n0 - n0 = 0 /\ 1..0 = {}
    BY <1>1
  <2>2. N >= 2
    BY DEF N
  <2>3. N \in 2..(N + 1) /\ N >= (N + 1) - 1
    BY <1>1, <2>2
  <2>4. f[q[n0]] = <<>>
    BY <1>3, <1>4, <1>5, <2>3
  <2>5. Rest(n0)
    BY <2>1, <2>4
  <2> QED BY <2>1, <2>5
<1>7. ASSUME NEW m \in 1..n0, m - 1 \in T PROVE m \in T
  <2> DEFINE n == n0 - m
             j == q[n]
             old == f[q[n + 1]]
  <2>1. n \in 0..n0 /\ n + 1 \in 1..n0 /\ n0 - (m - 1) = n + 1 /\ (n + 1) - 1 = n /\ m \in 0..n0 /\ n + 1 \in 0..n0
    BY <1>1
  <2>2. Rest(n + 1)
    BY <1>7, <2>1
  <2> HIDE DEF n
  <2>3. /\ j \in Nat /\ j >= 2 /\ q[n + 1] <= N /\ q[n + 1] \in Nat
        /\ v[n + 1] = L!Quote => q[n + 1] = j + 2 /\ t[j] = L!Quote
        /\ v[n + 1] # L!Quote => q[n + 1] = j + 1 /\ t[j] = v[n + 1]
    BY <1>4, <2>1
  <2> HIDE DEF j
  <2>4. t[j] = v[n + 1] /\ q[n + 1] = IF t[j] = L!Quote THEN j + 2 ELSE j + 1
    BY <2>3
  <2>5. j \in 2..(N + 1) /\ ~(j >= (N + 1) - 1)
    BY <1>1, <2>3
  <2>6. f[j] = <<t[j]>> \o f[q[n + 1]]
    BY <1>3, <1>5, <2>4, <2>5
  <2>7. f[j] = <<v[n + 1]>> \o old /\ v[n + 1] \in C
    BY <1>1, <2>1, <2>4, <2>6
  <2>8. /\ old \in Seq(C) /\ Len(old) = n0 - (n + 1)
        /\ \A k \in 1..(n0 - (n + 1)) : old[k] = v[(n + 1) + k]
    BY <2>2
  <2> DEFINE new == f[j]
             l == Len(old)
  <2> HIDE DEF old
  <2>9. /\ new \in Seq(C) /\ l \in Nat /\ Len(new) = l + 1 /\ new[1] = v[n + 1]
        /\ \A k \in 1..l : new[k + 1] = old[k]
    BY <2>7, <2>8, LenProperties
  <2> HIDE DEF new
  <2>10. l = n0 - (n + 1)
    BY <2>8
  <2> HIDE DEF l
  <2>11. Len(new) = n0 - n
    BY <1>1, <2>1, <2>9, <2>10
  <2>12. ASSUME NEW k \in 1..(n0 - n) PROVE new[k] = v[n + k]
    <3>1. CASE k = 1
      BY <2>9, <3>1
    <3>2. CASE k # 1
      <4>1. k - 1 \in 1..l /\ (k - 1) + 1 = k /\ (n + 1) + (k - 1) = n + k
        BY <1>1, <2>1, <2>10, <3>2
      <4>2. new[(k - 1) + 1] = old[k - 1]
        BY <2>9, <4>1
      <4>3. old[k - 1] = v[(n + 1) + (k - 1)]
        BY <2>8, <2>10, <4>1
      <4> QED BY <4>1, <4>2, <4>3
    <3> QED BY <3>1, <3>2
  <2>13. Rest(n)
    BY <2>9, <2>11, <2>12 DEF new, j
  <2> QED BY <2>1, <2>13 DEF n
<1>8. \A m \in 0..n0 : m \in T
  <2> HIDE DEF T
  <2> QED BY <1>1, <1>6, <1>7, UpTo
<1>9. Rest(0)
  <2>1. n0 \in 0..n0 /\ n0 - n0 = 0
    BY <1>1
  <2> QED BY <1>8, <2>1
<1> DEFINE r == f[2]
<1>10. /\ r \in Seq(C) /\ Len(r) = n0 - 0
       /\ \A m \in 1..(n0 - 0) : r[m] = v[0 + m]
  BY <1>4, <1>9
<1> HIDE DEF r
<1>11. Len(r) = n0 /\ \A m \in 1..n0 : r[m] = v[m]
  <2>1. n0 - 0 = n0 /\ \A m \in 1..n0 : 0 + m = m
    BY <1>1
  <2> QED BY <1>10, <2>1
<1>12. r = v
  <2>1. Len(r) = Len(v)
    BY <1>11 DEF n0
  <2>2. \A m \in 1..Len(r) : r[m] = v[m]
    BY <1>11
  <2> QED BY <1>10, <2>1, <2>2, SeqEqual
<1> QED BY <1>3, <1>12 DEF r, N

\* A value written as a literal is read as one string token with that value.
LEMMA LiteralRead ==
  ASSUME NEW C, L!Quote \in C, NEW v \in Seq(C)
  PROVE  LET tokens == L!Read(L!Quoted(v))
         IN Len(tokens) = 2 /\ tokens[1] = [kind |-> "string", value |-> v]
<1> DEFINE t == L!Quoted(v)
           N == Len(t)
<1>1. t \in Seq(C)
  BY QuotedIs
<1>2. PICK q : LaidOut(v, t, q)
  BY QuotedIs
<1> HIDE DEF t
<1>3. N \in Nat /\ N >= 2 /\ StringIn(t, 1, N)
  BY <1>1, <1>2, LiteralIsString
<1>4. L!TokenEnd(t, 1) = N + 1
  BY <1>1, <1>3, LiteralEnds
<1>5. L!StringValue(t, 1, N + 1) = v
  BY <1>1, <1>2, <1>3, LiteralValue
<1>6. t[1] = L!Quote
  BY <1>3 DEF StringIn
<1>7. L!KindOf(t, 1, N + 1) = "string"
  <2>1. t[1] \notin Letters /\ t[1] \notin Digits \cup {L!Minus}
    BY <1>6, Marks, Classes
  <2> QED BY <1>6, <2>1 DEF L!KindOf
<1> DEFINE tok == L!TokenAt(t, 1)
           eof == L!EofToken(t)
<1>8. tok.kind = "string" /\ tok.value = v
  BY <1>4, <1>5, <1>7 DEF L!TokenAt
<1>9. PICK g : Tokens(g, t)
  BY <1>1, TokenizeSteps
<1>10. 1 \in 1..(N + 1) /\ N + 1 \in 1..(N + 1) /\ ~(1 > N) /\ N + 1 > N /\ N + 1 # 0
  BY <1>3
<1>11. /\ g[1] = TokPart(t, 1, g) /\ g[N + 1] = TokPart(t, N + 1, g)
       /\ L!Tokenize(t) = g[1]
  BY <1>9, <1>10 DEF Tokens
<1>12. g[N + 1] = <<eof>>
  BY <1>10, <1>11 DEF TokPart
<1>13. t[1] \notin Spaces
  BY <1>6, Classes
<1> HIDE DEF tok, eof
<1>14. L!Tokenize(t) = <<tok>> \o <<eof>>
  <2>1. g[N + 1] # <<>>
    BY <1>12
  <2> QED BY <1>4, <1>10, <1>11, <1>12, <1>13, <2>1 DEF TokPart, tok, L!LexError
<1> DEFINE tokens == L!Tokenize(t)
<1>15. Len(tokens) = 2 /\ DOMAIN tokens = 1..2 /\ tokens[1] = tok
  BY <1>14
<1>16. L!Read(t) = [k \in DOMAIN tokens |-> [kind |-> tokens[k].kind, value |-> tokens[k].value]]
  BY DEF L!Read
<1> HIDE DEF tokens
<1>17. Len(L!Read(t)) = 2 /\ L!Read(t)[1] = [kind |-> tok.kind, value |-> tok.value]
  BY <1>15, <1>16
<1> QED BY <1>8, <1>17 DEF t

\* A script is refused exactly if taking the longest lexeme at each place comes to a
\* character that starts none; otherwise its tokens are those lexemes (tokenize_sql): for
\* every text over any alphabet, of any length.
THEOREM TokensAreLexemes == TextSpec => []LexerReadsLexemes
<1>1. TextTyped => LexerReadsLexemes
  <2> SUFFICES ASSUME TextTyped, reader = "lexer" PROVE LexerReadsLexemes
    BY DEF LexerReadsLexemes
  <2>1. text \in Seq(Alphabet["lexer"])
    BY DEF TextTyped
  <2> QED BY <2>1, LexemesRead DEF LexerReadsLexemes
<1> QED BY <1>1, TextIsTyped, PTL

\* Every value can be written as one string literal, which is read as that value, quotes
\* included (tokenize_string).
THEOREM LiteralsAreTheirValues == TextSpec => []QuotingRoundTrips
<1>1. TextTyped => QuotingRoundTrips
  <2> SUFFICES ASSUME TextTyped, reader = "lexer" PROVE QuotingRoundTrips
    BY DEF QuotingRoundTrips
  <2> DEFINE A == Alphabet["lexer"]
             C == A \cup {L!Quote}
  <2>1. text \in Seq(A)
    BY DEF TextTyped
  <2>2. L!Quote \in C /\ A \subseteq C
    OBVIOUS
  <2> HIDE DEF A, C
  <2>3. text \in Seq(C)
    BY <2>1, <2>2, SeqMonotonic
  <2> QED BY <2>2, <2>3, LiteralRead DEF QuotingRoundTrips
<1> QED BY <1>1, TextIsTyped, PTL
=============================================================================
