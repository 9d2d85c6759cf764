--------------------------- MODULE DataFileProofs ---------------------------
(***************************************************************************)
(* Proofs about the data file behind any number of appends, each of them   *)
(* whole or torn after any character: offsets lead to their rows, a torn   *)
(* append spoils its own line and no other, and the pieces Engine has of   *)
(* the file say what the readers make of its characters.                   *)
(***************************************************************************)
EXTENDS TextProofs, DataFile

-----------------------------------------------------------------------------
(* The file is what was appended to it.                                    *)

\* snprintf of an id gives digits: the recursion is over the digits already cut off.
\* How the text of an id comes from those of its quotients by ten.
TextsOfIds(f, id) ==
    /\ f \in [0..id -> Seq(Digit)] /\ f[0] = <<>> /\ IdText(id) = f[id]
    /\ \A n \in 1..id : f[n] = Append(f[n \div 10], Numerals[1 + (n % 10)])

LEMMA IdTextSteps ==
  ASSUME NEW id \in Nat
  PROVE  \E f : TextsOfIds(f, id)
<1> DEFINE V == Seq(Digit)
           nothing == <<>>
           G == [p \in (1..id) \X V |-> Append(p[2], Numerals[1 + (p[1] % 10)])]
<1>1. nothing \in V /\ \A n \in Nat : Numerals[1 + (n % 10)] \in Digit
  BY NumeralsTyped
<1>2. \A n \in 1..id : \A v \in V : G[<<n, v>>] = Append(v, Numerals[1 + (n % 10)])
  OBVIOUS
<1> HIDE DEF G, nothing
<1>3. StaysIn(G, id, V)
  <2> SUFFICES ASSUME NEW n \in 1..id, NEW v \in V PROVE G[<<n, v>>] \in V
    BY DEF StaysIn
  <2>1. Append(v, Numerals[1 + (n % 10)]) \in V
    BY <1>1, AppendProperties
  <2> QED BY <1>2, <2>1
<1> HIDE DEF V
<1>4. PICK g : RecursByTens(g, id, V, nothing, G)
  BY <1>1, <1>3, ByTens
<1>5. /\ g \in [0..id -> V] /\ g[0] = nothing
      /\ \A n \in 1..id : g[n] = Append(g[n \div 10], Numerals[1 + (n % 10)])
  <2>1. g \in [0..id -> V] /\ g[0] = nothing /\ \A n \in 1..id : g[n] = G[<<n, g[n \div 10]>>]
    BY <1>4 DEF RecursByTens
  <2>2. \A n \in 1..id : n \div 10 \in 0..id
    OBVIOUS
  <2>3. \A n \in 1..id : g[n \div 10] \in V
    BY <2>1, <2>2
  <2> QED BY <1>2, <2>1, <2>3
<1> DEFINE Is(f) == f = [n \in 0..id |-> IF n = 0 THEN <<>> ELSE Append(f[n \div 10], Numerals[1 + (n % 10)])]
           found == CHOOSE f : Is(f)
<1>6. Is(g)
  <2>1. \A n \in 0..id : g[n] = IF n = 0 THEN nothing ELSE Append(g[n \div 10], Numerals[1 + (n % 10)])
    <3> TAKE n \in 0..id
    <3>1. n # 0 => n \in 1..id
      OBVIOUS
    <3> QED BY <1>5, <3>1
  <2> QED BY <1>5, <2>1 DEF nothing
<1>7. Is(found)
  <2> HIDE DEF Is
  <2> QED BY <1>6
<1>8. IdText(id) = found[id]
  BY DEF IdText
<1> HIDE DEF found
<1>9. PICK h : h = found /\ h[0] = nothing /\ \A n \in 1..id : h[n] = Append(h[n \div 10], Numerals[1 + (n % 10)])
  <2>1. 0 \in 0..id /\ \A n \in 1..id : n \in 0..id /\ n # 0
    OBVIOUS
  <2> QED BY <1>7, <2>1 DEF nothing
<1>10. SameByTens(h, g, id)
  BY <1>5, <1>9 DEF SameByTens
<1>11. SameUpTo(h, g, id)
  BY <1>10, SameRecursionByTens
<1>12. IdText(id) = g[id]
  BY <1>8, <1>9, <1>11 DEF SameUpTo
<1> QED BY <1>5, <1>12 DEF TextsOfIds, V, nothing

LEMMA IdTextTyped ==
  ASSUME NEW id \in Nat
  PROVE  IdText(id) \in Seq(Digit)
<1>1. PICK f : TextsOfIds(f, id)
  BY IdTextSteps
<1> QED BY <1>1 DEF TextsOfIds

\* The characters a data file is made of.
Chars == {Backslash, Bar, Newline, "n"} \cup Digit \cup UNION {ToSet(value) : value \in Values}

Appends == [offset : Nat \ {0}, row : Seq(Seq(Chars)), line : Seq(Chars), cut : BOOLEAN]

\* The place behind an append.
After(append) == append.offset + Len(append.line)

Written(append) ==
    /\ append.row # <<>> /\ Len(append.row) = 2
    /\ append.line # <<>>
    /\ IF append.cut THEN append.line \in Seq(InLine(Chars)) ELSE append.line = Line(append.row)

\* The file is what was appended, end to end: every append still stands where it was put.
FileTyped == file \in Seq(Chars) /\ appended \in Seq(Appends)

FileHolds ==
    \A i \in DOMAIN appended :
        Written(appended[i]) /\ Holds(file, appended[i].offset, appended[i].line)

EndToEnd ==
    /\ \A i \in DOMAIN appended :
          appended[i].offset = IF i = 1 THEN 1 ELSE After(appended[i - 1])
    /\ EndOfFile = IF appended = <<>> THEN 1 ELSE After(appended[Len(appended)])

FileInv == FileTyped /\ FileHolds /\ EndToEnd

\* escape_field can write what the file is made of.
LEMMA CharsAreCharset == IsCharset(Chars)
<1>1. \A value \in Values : "malformed" \notin ToSet(value)
  BY RowsAssumption
<1>2. "malformed" \notin {Backslash, Bar, Newline, "n"}
  BY DEF Backslash, Bar, Newline
<1> QED BY <1>1, <1>2, NumeralsTyped DEF IsCharset, Chars

\* A row has two values, its line at least a newline.
LEMMA RowOfTyped ==
  ASSUME NEW id \in Ids, NEW value \in Values
  PROVE  /\ RowOf(id, value) \in Seq(Seq(Chars)) /\ RowOf(id, value) # <<>> /\ Len(RowOf(id, value)) = 2
         /\ Line(RowOf(id, value)) \in Seq(Chars) /\ Line(RowOf(id, value)) # <<>>
<1>1. IdText(id) \in Seq(Chars)
  <2>1. id \in Nat /\ Digit \subseteq Chars
    BY RowsAssumption DEF Chars
  <2> QED BY <2>1, IdTextTyped, SeqMonotonic
<1>2. value \in Seq(Chars)
  <2>1. ToSet(value) \subseteq Chars /\ value \in Seq(ToSet(value))
    BY RowsAssumption DEF Chars
  <2> QED BY <2>1, SeqMonotonic
<1>3. RowOf(id, value) \in Seq(Seq(Chars)) /\ RowOf(id, value) # <<>> /\ Len(RowOf(id, value)) = 2
  BY <1>1, <1>2 DEF RowOf
<1> DEFINE row == RowOf(id, value)
<1>4. row \in Seq(Seq(Chars))
  BY <1>3
<1> HIDE DEF row
<1>5. Line(row) \in Seq(Chars) /\ Len(Line(row)) = Len(Body(row)) + 1 /\ Body(row) \in Seq(InLine(Chars))
  BY <1>4, CharsAreCharset, LineShape
<1>6. Line(row) # <<>>
  <2>1. Len(Body(row)) \in Nat
    BY <1>5, LenProperties
  <2> QED BY <1>5, <2>1, EmptySeq
<1> QED BY <1>3, <1>5, <1>6 DEF row

\* What an append adds.
Adds(row, line, cut) ==
    /\ row \in Seq(Seq(Chars)) /\ row # <<>> /\ Len(row) = 2
    /\ line \in Seq(Chars) /\ line # <<>> /\ cut \in BOOLEAN
    /\ IF cut THEN line \in Seq(InLine(Chars)) ELSE line = Line(row)
    /\ Writes(row, line, cut)

\* Every step is an append, of a line or of its beginning.
LEMMA NextAdds ==
  ASSUME Next
  PROVE  \E row, line, cut : Adds(row, line, cut)
<1>1. CASE AppendRow
  <2>1. PICK id \in Ids, value \in Values : Writes(RowOf(id, value), Line(RowOf(id, value)), FALSE)
    BY <1>1 DEF AppendRow
  <2>2. Adds(RowOf(id, value), Line(RowOf(id, value)), FALSE)
    BY <2>1, RowOfTyped DEF Adds
  <2> QED BY <2>2
<1>2. CASE AppendTorn
  <2>1. PICK id \in Ids, value \in Values :
          \E written \in 1..(Len(Line(RowOf(id, value))) - 1) :
             Writes(RowOf(id, value), SubSeq(Line(RowOf(id, value)), 1, written), TRUE)
    BY <1>2 DEF AppendTorn
  <2> DEFINE row == RowOf(id, value)
             whole == Line(row)
  <2>2. PICK written \in 1..(Len(whole) - 1) : Writes(row, SubSeq(whole, 1, written), TRUE)
    BY <2>1
  <2>3. row \in Seq(Seq(Chars)) /\ row # <<>> /\ Len(row) = 2
    BY RowOfTyped
  <2> HIDE DEF row
  <2>4. /\ whole \in Seq(Chars) /\ Len(whole) \in Nat
        /\ DOMAIN whole = 1..Len(whole)
        /\ \A i \in DOMAIN whole : whole[i] = Newline <=> i = Len(whole)
    BY <2>3, CharsAreCharset, LineShape, LenProperties
  <2> HIDE DEF whole
  <2> DEFINE part == SubSeq(whole, 1, written)
  <2>5. \A i \in 1..written : whole[i] \in InLine(Chars)
    <3> TAKE i \in 1..written
    <3>1. i \in 1..Len(whole) /\ i # Len(whole)
      <4>1. Len(whole) \in Nat
        BY <2>4
      <4> QED BY <4>1
    <3>2. whole[i] \in Chars /\ whole[i] # Newline
      BY <2>4, <3>1, ElementOfSeq
    <3> QED BY <3>2 DEF InLine
  <2>6. part \in Seq(InLine(Chars)) /\ Len(part) = written
    <3>1. /\ part \in Seq(InLine(Chars))
          /\ Len(part) = IF 1 <= written THEN written - 1 + 1 ELSE 0
      BY <2>5, SubSeqProperties
    <3> QED BY <2>4, <3>1
  <2> HIDE DEF part
  <2>7. part \in Seq(Chars) /\ part # <<>>
    <3>1. part \in Seq(Chars)
      BY <2>6, CharsAreCharset, BarTyped
    <3>2. written # 0
      <4>1. Len(whole) \in Nat
        BY <2>4
      <4> QED BY <4>1
    <3> QED BY <2>6, <3>1, <3>2, EmptySeq
  <2>8. Adds(row, part, TRUE)
    <3>1. Writes(row, part, TRUE)
      BY <2>2 DEF part
    <3> QED BY <2>3, <2>6, <2>7, <3>1 DEF Adds
  <2> QED BY <2>8
<1> QED BY <1>1, <1>2 DEF Next

\* What a file holds it still holds when something is written behind it.
LEMMA HoldsMore ==
  ASSUME NEW C, NEW f \in Seq(C), NEW line \in Seq(C)
  PROVE  /\ \A offset \in Nat \ {0} : \A held \in Seq(C) :
               Holds(f, offset, held) => Holds(f \o line, offset, held)
         /\ Holds(f \o line, Len(f) + 1, line)
<1>1. /\ Len(f) \in Nat /\ Len(line) \in Nat /\ Len(f \o line) = Len(f) + Len(line)
      /\ \A i \in 1..(Len(f) + Len(line)) : (f \o line)[i] = IF i <= Len(f) THEN f[i] ELSE line[i - Len(f)]
  BY ConcatProperties, LenProperties
<1> DEFINE g == f \o line
<1> HIDE DEF g
<1>2. ASSUME NEW offset \in Nat \ {0}, NEW held \in Seq(C), Holds(f, offset, held)
      PROVE  Holds(g, offset, held)
  <2>1. Len(held) \in Nat /\ offset + Len(held) - 1 <= Len(g)
    BY <1>1, <1>2, LenProperties DEF Holds, g
  <2>2. ASSUME NEW i \in 1..Len(held) PROVE g[offset + i - 1] = held[i]
    <3>1. /\ offset + i - 1 \in 1..(Len(f) + Len(line)) /\ offset + i - 1 <= Len(f)
          /\ f[offset + i - 1] = held[i]
      BY <1>1, <1>2, <2>1 DEF Holds
    <3> QED BY <1>1, <3>1 DEF g
  <2> QED BY <2>1, <2>2 DEF Holds
<1>3. Holds(g, Len(f) + 1, line)
  <2>1. (Len(f) + 1) + Len(line) - 1 <= Len(g)
    BY <1>1 DEF g
  <2>2. ASSUME NEW i \in 1..Len(line) PROVE g[(Len(f) + 1) + i - 1] = line[i]
    <3>1. /\ (Len(f) + 1) + i - 1 \in 1..(Len(f) + Len(line)) /\ ~((Len(f) + 1) + i - 1 <= Len(f))
          /\ (Len(f) + 1) + i - 1 - Len(f) = i
      BY <1>1
    <3> QED BY <1>1, <3>1 DEF g
  <2> QED BY <2>1, <2>2 DEF Holds
<1> QED BY <1>2, <1>3 DEF g

\* An append goes behind all others and changes none.
LEMMA AddsKeeps ==
  ASSUME FileInv, NEW row, NEW line, NEW cut, Adds(row, line, cut)
  PROVE  FileInv'
<1> DEFINE n == Len(appended)
           new == [offset |-> EndOfFile, row |-> row, line |-> line, cut |-> cut]
<1>1. /\ n \in Nat /\ DOMAIN appended = 1..n /\ Len(file) \in Nat
      /\ \A i \in 1..n : appended[i] \in Appends
  BY LenProperties, ElementOfSeq DEF FileInv, FileTyped
<1>2. new \in Appends
  BY <1>1 DEF Adds, Appends, EndOfFile
<1>3. file' = file \o line /\ appended' = Append(appended, new)
  BY DEF Adds, Writes
<1>4. line \in Seq(Chars) /\ Written(new)
  BY DEF Adds, Written
<1>5. new.offset = Len(file) + 1 /\ new.line = line
  BY DEF EndOfFile
<1> HIDE DEF new
<1>6. /\ Len(appended') = n + 1 /\ DOMAIN appended' = 1..(n + 1)
      /\ \A i \in 1..n : appended'[i] = appended[i]
      /\ appended'[n + 1] = new
  BY <1>3, AppendAt DEF FileInv, FileTyped
<1>7. FileTyped'
  <2>1. file \o line \in Seq(Chars)
    BY <1>4, ConcatProperties DEF FileInv, FileTyped
  <2>2. Append(appended, new) \in Seq(Appends)
    BY <1>2, AppendProperties DEF FileInv, FileTyped
  <2> QED BY <1>3, <2>1, <2>2 DEF FileTyped
<1>8. FileHolds'
  <2> SUFFICES ASSUME NEW i \in 1..(n + 1)
               PROVE  Written(appended'[i]) /\ Holds(file', appended'[i].offset, appended'[i].line)
    BY <1>6 DEF FileHolds, Written, Holds, InLine, Chars, Line
  <2>1. CASE i = n + 1
    <3>1. Holds(file \o line, Len(file) + 1, line)
      BY <1>4, HoldsMore DEF FileInv, FileTyped
    <3> QED BY <1>3, <1>4, <1>5, <1>6, <2>1, <3>1
  <2>2. CASE i # n + 1
    <3>1. i \in 1..n
      BY <1>1, <2>2
    <3>2. Written(appended[i]) /\ Holds(file, appended[i].offset, appended[i].line)
      BY <1>1, <3>1 DEF FileInv, FileHolds
    <3>3. appended[i].offset \in Nat \ {0} /\ appended[i].line \in Seq(Chars)
      BY <1>1, <3>1 DEF Appends
    <3>4. Holds(file \o line, appended[i].offset, appended[i].line)
      BY <1>4, <3>2, <3>3, HoldsMore DEF FileInv, FileTyped
    <3> QED BY <1>3, <1>6, <3>1, <3>2, <3>4
  <2> QED BY <2>1, <2>2
<1>9. EndToEnd'
  <2>1. After(new) = Len(file') + 1
    <3>1. Len(file') = Len(file) + Len(line) /\ Len(line) \in Nat
      BY <1>3, <1>4, ConcatProperties, LenProperties DEF FileInv, FileTyped
    <3> QED BY <1>1, <1>5, <3>1 DEF After
  <2>2. appended' # <<>>
    BY <1>1, <1>6, EmptySeq
  <2>3. ASSUME NEW i \in 1..(n + 1)
        PROVE  appended'[i].offset = IF i = 1 THEN 1 ELSE After(appended'[i - 1])
    <3>1. CASE i = n + 1
      <4>1. new.offset = IF n = 0 THEN 1 ELSE After(appended[n])
        <5>1. n = 0 <=> appended = <<>>
          BY EmptySeq DEF FileInv, FileTyped
        <5> QED BY <1>5, <5>1 DEF FileInv, EndToEnd, EndOfFile
      <4>2. n # 0 => n \in 1..n /\ i - 1 = n
        BY <1>1, <3>1
      <4>3. i = 1 <=> n = 0
        BY <1>1, <3>1
      <4> QED BY <1>6, <3>1, <4>1, <4>2, <4>3
    <3>2. CASE i # n + 1
      <4>1. i \in 1..n /\ (i # 1 => i - 1 \in 1..n)
        BY <1>1, <3>2
      <4>2. appended[i].offset = IF i = 1 THEN 1 ELSE After(appended[i - 1])
        BY <1>1, <4>1 DEF FileInv, EndToEnd
      <4> QED BY <1>6, <4>1, <4>2
    <3> QED BY <3>1, <3>2
  <2> QED BY <1>6, <2>1, <2>2, <2>3 DEF EndToEnd, EndOfFile, After
<1> QED BY <1>7, <1>8, <1>9 DEF FileInv

\* The file is what was appended, whole or torn, end to end.
THEOREM FileIsAppends == Spec => []FileInv
<1>1. Init => FileInv
  <2> SUFFICES ASSUME Init PROVE FileInv
    OBVIOUS
  <2>1. file = <<>> /\ appended = <<>>
    BY DEF Init
  <2>2. file \in Seq(Chars) /\ appended \in Seq(Appends) /\ DOMAIN appended = {} /\ Len(file) = 0
    BY <2>1
  <2> QED BY <2>1, <2>2 DEF FileInv, FileTyped, FileHolds, EndToEnd, EndOfFile
<1>2. FileInv /\ [Next]_vars => FileInv'
  <2> SUFFICES ASSUME FileInv, [Next]_vars PROVE FileInv'
    OBVIOUS
  <2>1. CASE Next
    <3>1. PICK row, line, cut : Adds(row, line, cut)
      BY <2>1, NextAdds
    <3> QED BY <3>1, AddsKeeps
  <2>2. CASE UNCHANGED vars
    BY <2>2 DEF vars, FileInv, FileTyped, FileHolds, EndToEnd, EndOfFile
  <2> QED BY <2>1, <2>2
<1> QED BY <1>1, <1>2, PTL DEF Spec

\* RowHeld at each append that is whole.
LEMMA RowsAtOffsets ==
  ASSUME FileInv
  PROVE  OffsetsLeadToRows
<1> SUFFICES ASSUME NEW i \in DOMAIN appended, ~appended[i].cut
             PROVE  RowAtOffset(file, appended[i].offset, 2) = Readable(appended[i].row)
  BY DEF OffsetsLeadToRows
<1> DEFINE row == appended[i].row
           offset == appended[i].offset
<1>1. appended[i] \in Appends
  BY LenProperties, ElementOfSeq DEF FileInv, FileTyped
<1>2. row \in Seq(Seq(Chars)) /\ offset \in Nat \ {0} /\ file \in Seq(Chars)
  BY <1>1 DEF Appends, FileInv, FileTyped
<1>3. row # <<>> /\ Len(row) = 2 /\ Holds(file, offset, Line(row))
  BY DEF FileInv, FileHolds, Written
<1> HIDE DEF row, offset
<1>4. RowAtOffset(file, offset, Len(row)) = WithoutLastReturn(row)
  BY <1>2, <1>3, CharsAreCharset, RowHeld
<1>5. WithoutLastReturn(row) = Readable(row)
  <2>1. DOMAIN row = 1..2 /\ row = [k \in 1..2 |-> row[k]]
    BY <1>2, <1>3, LenProperties
  <2>2. WithoutLastReturn(row) = [k \in 1..2 |-> IF k = 2 THEN WithoutReturn(row[2]) ELSE row[k]]
    BY <1>3, <2>1 DEF WithoutLastReturn
  <2>3. Readable(row) = [k \in 1..2 |-> IF k = 2 THEN WithoutReturn(row[2]) ELSE row[k]]
    BY DEF Readable
  <2> QED BY <2>2, <2>3
<1> QED BY <1>3, <1>4, <1>5 DEF row, offset

\* Whatever was torn before it and whatever came after, a whole row is read back at the
\* offset its append was given (read_row_at_offset).
THEOREM OffsetsHold == Spec => []OffsetsLeadToRows
<1>1. FileInv => OffsetsLeadToRows
  BY RowsAtOffsets
<1> QED BY <1>1, FileIsAppends, PTL

\* Where an append stands, and where a line feed stands in it.
LEMMA AppendAtPlace ==
  ASSUME FileInv, NEW i \in DOMAIN appended
  PROVE  LET append == appended[i]
             offset == append.offset
             written == Len(append.line)
         IN /\ i \in 1..Len(appended) /\ Len(appended) \in Nat /\ Len(file) \in Nat
            /\ offset \in Nat \ {0} /\ written \in Nat \ {0} /\ offset + written - 1 <= Len(file)
            /\ \A q \in 1..written : file[offset + q - 1] = Newline <=> (q = written /\ ~append.cut)
            /\ i # 1 => i - 1 \in DOMAIN appended /\ offset = After(appended[i - 1])
<1> DEFINE append == appended[i]
           offset == append.offset
           line == append.line
           written == Len(line)
           row == append.row
<1>1. /\ Len(appended) \in Nat /\ Len(file) \in Nat /\ DOMAIN appended = 1..Len(appended)
      /\ append \in Appends
  BY LenProperties, ElementOfSeq DEF FileInv, FileTyped
<1>2. offset \in Nat \ {0} /\ line \in Seq(Chars) /\ row \in Seq(Seq(Chars)) /\ append.cut \in BOOLEAN
  BY <1>1 DEF Appends
<1>3. Written(append) /\ Holds(file, offset, line)
  BY DEF FileInv, FileHolds
<1>4. i # 1 => i - 1 \in DOMAIN appended /\ offset = After(appended[i - 1])
  BY <1>1 DEF FileInv, EndToEnd
<1>5. row # <<>> /\ line # <<>> /\ IF append.cut THEN line \in Seq(InLine(Chars)) ELSE line = Line(row)
  BY <1>3 DEF Written
<1> HIDE DEF append, offset, row
<1>6. written \in Nat \ {0} /\ DOMAIN line = 1..written
  BY <1>2, <1>5, LenProperties, EmptySeq
<1>7. offset + written - 1 <= Len(file) /\ \A q \in 1..written : file[offset + q - 1] = line[q]
  BY <1>3 DEF Holds
<1> HIDE DEF line
<1>8. ASSUME NEW q \in 1..written PROVE line[q] = Newline <=> (q = written /\ ~append.cut)
  <2>1. CASE append.cut
    <3>1. line[q] \in InLine(Chars)
      BY <1>5, <1>6, <2>1, ElementOfSeq
    <3> QED BY <2>1, <3>1 DEF InLine
  <2>2. CASE ~append.cut
    <3>1. line = Line(row)
      BY <1>5, <2>2
    <3>2. \A k \in DOMAIN Line(row) : Line(row)[k] = Newline <=> k = Len(Line(row))
      BY <1>2, <1>5, CharsAreCharset, LineShape
    <3>3. q \in DOMAIN line
      BY <1>6
    <3>4. line[q] = Newline <=> q = Len(line)
      BY <3>1, <3>2, <3>3
    <3> QED BY <2>2, <3>4
  <2> QED BY <2>1, <2>2
<1>9. \A q \in 1..written : file[offset + q - 1] = Newline <=> (q = written /\ ~append.cut)
  BY <1>7, <1>8
<1>10. i \in 1..Len(appended)
  BY <1>1
<1> QED BY <1>1, <1>2, <1>4, <1>6, <1>7, <1>9, <1>10 DEF append, offset, line

\* The lines of the file start where an append does that continues no torn one.
LEMMA StartsAre ==
  ASSUME FileInv
  PROVE  Starts(file) = {appended[i].offset : i \in {j \in DOMAIN appended : StartsLine(j)}}
<1> DEFINE n == Len(appended)
           o(i) == appended[i].offset
           w(i) == Len(appended[i].line)
           lines == {j \in DOMAIN appended : StartsLine(j)}
<1>1. /\ Len(file) \in Nat /\ DOMAIN file = 1..Len(file)
      /\ n \in Nat /\ DOMAIN appended = 1..n
  BY LenProperties DEF FileInv, FileTyped
<1>2. \A i \in 1..n :
        /\ o(i) \in Nat \ {0} /\ w(i) \in Nat \ {0} /\ o(i) + w(i) - 1 <= Len(file)
        /\ i # 1 => i - 1 \in 1..n /\ o(i) = o(i - 1) + w(i - 1)
  BY <1>1, AppendAtPlace DEF After
<1>3. \A i \in 1..n : \A q \in 1..w(i) :
        file[o(i) + q - 1] = Newline <=> (q = w(i) /\ ~appended[i].cut)
  BY <1>1, AppendAtPlace
<1>4. Len(file) > 0 => n # 0 /\ o(1) = 1 /\ o(n) + w(n) = Len(file) + 1
  <2> SUFFICES ASSUME Len(file) > 0 PROVE n # 0 /\ o(1) = 1 /\ o(n) + w(n) = Len(file) + 1
    OBVIOUS
  <2>1. appended # <<>>
    BY <1>1 DEF FileInv, EndToEnd, EndOfFile
  <2>2. n # 0
    BY <2>1, EmptySeq DEF FileInv, FileTyped
  <2>3. o(1) = 1
    <3>1. 1 \in DOMAIN appended
      BY <1>1, <2>2
    <3> QED BY <3>1 DEF FileInv, EndToEnd
  <2>4. Len(file) + 1 = After(appended[n])
    BY <2>1 DEF FileInv, EndToEnd, EndOfFile
  <2> QED BY <2>2, <2>3, <2>4 DEF After
<1>5. \A i \in 1..n : StartsLine(i) <=> i = 1 \/ ~appended[i - 1].cut
  BY DEF StartsLine
<1> HIDE DEF n, o, w
\* the character in front of an append ends a line or not
<1>6. ASSUME NEW i \in 1..n, i # 1
      PROVE  o(i) # 1 /\ (file[o(i) - 1] = Newline <=> StartsLine(i))
  <2>1. i - 1 \in 1..n /\ o(i) = o(i - 1) + w(i - 1)
    BY <1>2, <1>6
  <2>2. o(i - 1) \in Nat \ {0} /\ w(i - 1) \in Nat \ {0}
    BY <1>2, <2>1
  <2>3. w(i - 1) \in 1..w(i - 1) /\ o(i - 1) + w(i - 1) - 1 = o(i) - 1 /\ o(i) # 1
    BY <2>1, <2>2
  <2>4. file[o(i - 1) + w(i - 1) - 1] = Newline <=> ~appended[i - 1].cut
    BY <1>3, <2>1, <2>3
  <2> QED BY <1>5, <1>6, <2>3, <2>4
<1>7. ASSUME NEW i \in 1..n, StartsLine(i) PROVE o(i) \in Starts(file)
  <2>1. o(i) \in 1..Len(file)
    BY <1>1, <1>2
  <2>2. i = 1 => o(i) = 1
    <3> SUFFICES ASSUME i = 1 PROVE o(1) = 1
      OBVIOUS
    <3>1. Len(file) > 0
      BY <1>1, <2>1
    <3> QED BY <1>4, <3>1
  <2>3. i # 1 => file[o(i) - 1] = Newline
    BY <1>6, <1>7
  <2> QED BY <1>1, <2>1, <2>2, <2>3 DEF Starts
<1>8. ASSUME NEW p \in Starts(file) PROVE \E i \in 1..n : StartsLine(i) /\ p = o(i)
  <2>1. p \in 1..Len(file) /\ p \in Nat /\ (p = 1 \/ file[p - 1] = Newline)
    BY <1>1 DEF Starts
  <2> DEFINE before == {i \in 1..n : o(i) <= p}
  <2>2. n # 0 /\ o(1) = 1 /\ o(n) + w(n) = Len(file) + 1
    BY <1>1, <1>4, <2>1
  <2>3. before \in SUBSET (0..n) /\ before # {}
    BY <1>1, <2>1, <2>2
  <2> HIDE DEF before
  <2>4. PICK m \in before : \A i \in before : i <= m
    BY <1>1, <2>3, LargestExists
  <2>5. m \in 1..n /\ o(m) <= p
    BY <2>4 DEF before
  <2>6. o(m) \in Nat \ {0} /\ w(m) \in Nat \ {0}
    BY <1>2, <2>5
  <2>7. p < o(m) + w(m)
    <3>1. CASE m = n
      BY <1>1, <2>1, <2>2, <3>1
    <3>2. CASE m # n
      <4>1. m + 1 \in 1..n /\ m + 1 # 1 /\ (m + 1) - 1 = m /\ ~(m + 1 <= m)
        BY <1>1, <2>5, <3>2
      <4>2. o(m + 1) = o(m) + w(m) /\ o(m + 1) \in Nat
        BY <1>2, <4>1
      <4>3. ~(o(m + 1) <= p)
        BY <2>4, <4>1 DEF before
      <4> QED BY <2>1, <4>2, <4>3
    <3> QED BY <3>1, <3>2
  <2>8. CASE p = o(m)
    <3>1. m # 1 => StartsLine(m)
      BY <1>6, <2>1, <2>5, <2>8
    <3>2. StartsLine(m)
      BY <1>5, <2>5, <3>1
    <3> QED BY <2>5, <2>8, <3>2
  <2>9. CASE p # o(m)
    <3> DEFINE q == p - o(m)
    <3>1. q \in 1..w(m) /\ o(m) + q - 1 = p - 1 /\ q # w(m) /\ p # 1
      <4> DEFINE a == o(m)
                 b == w(m)
      <4>1. a \in Nat /\ a # 0 /\ b \in Nat /\ p \in Nat /\ a <= p /\ p < a + b /\ p # a
        BY <2>1, <2>5, <2>6, <2>7, <2>9
      <4> HIDE DEF a, b
      <4>2. /\ p - a \in 1..b /\ a + (p - a) - 1 = p - 1 /\ p - a # b /\ p # 1
        BY <4>1
      <4> QED BY <4>2 DEF a, b
    <3>2. file[p - 1] # Newline
      BY <1>3, <2>5, <3>1
    <3> QED BY <2>1, <3>1, <3>2
  <2> QED BY <2>8, <2>9
<1>9. \A i : i \in lines <=> i \in 1..n /\ StartsLine(i)
  BY <1>1
<1> HIDE DEF lines
<1>10. Starts(file) = {o(i) : i \in lines}
  BY <1>7, <1>8, <1>9
<1> QED BY <1>10 DEF o, lines

\* ScanIs and StartsAre, with the rows RowHeld finds.
LEMMA TearsSpoilLines ==
  ASSUME FileInv
  PROVE  TearsSpoilOneLine
<1> DEFINE found == Scan(file, 2)
           rows == found.rows
           lines == {i \in DOMAIN appended : StartsLine(i)}
<1>1. file \in Seq(Chars) /\ IsCharset(Chars) /\ 2 \in Nat \ {0} /\ Len(file) \in Nat
  BY CharsAreCharset, LenProperties DEF FileInv, FileTyped
<1>2. FoundFrom(file, 2, 1, found)
  BY <1>1, ScanIs
<1>3. Starts(file) = {appended[i].offset : i \in lines}
  BY StartsAre
<1> HIDE DEF found, lines
<1> SUFFICES ASSUME found.ok
             PROVE  /\ {rows[n].offset : n \in DOMAIN rows} = {appended[i].offset : i \in lines}
                    /\ \A i \in lines : ~appended[i].cut =>
                          [offset |-> appended[i].offset, row |-> Readable(appended[i].row)]
                              \in {rows[n] : n \in DOMAIN rows}
  BY DEF TearsSpoilOneLine, found, lines
<1>4. /\ \A b \in BadStarts(file) : b < 1
      /\ \A n \in DOMAIN rows : \E j \in ReadFrom(file, 1) : rows[n] = Entry(file, 2, j)
      /\ \A j \in ReadFrom(file, 1) : \E n \in DOMAIN rows : rows[n] = Entry(file, 2, j)
  BY <1>2 DEF FoundFrom
<1>5. Starts(file) \subseteq 1..Len(file) /\ BadStarts(file) \subseteq Starts(file)
  BY <1>1, StartsTyped
<1>6. BadStarts(file) = {}
  BY <1>1, <1>4, <1>5
<1>7. ReadFrom(file, 1) = Starts(file)
  BY <1>1, <1>5, <1>6 DEF ReadFrom
<1> HIDE DEF rows
<1>8. \A j : Entry(file, 2, j).offset = j
  BY DEF Entry
<1>9. {rows[n].offset : n \in DOMAIN rows} = Starts(file)
  BY <1>4, <1>7, <1>8
<1>10. ASSUME NEW i \in lines, ~appended[i].cut
       PROVE  [offset |-> appended[i].offset, row |-> Readable(appended[i].row)]
                  \in {rows[n] : n \in DOMAIN rows}
  <2> DEFINE j == appended[i].offset
  <2>1. j \in Starts(file)
    BY <1>3
  <2>2. j \in 1..Len(file) /\ ~(j > Len(file))
    BY <1>1, <1>5, <2>1
  <2>3. RowAtOffset(file, j, 2) = Readable(appended[i].row)
    <3>1. i \in DOMAIN appended
      BY DEF lines
    <3> QED BY <1>10, <3>1, RowsAtOffsets DEF OffsetsLeadToRows
  <2>4. ParseLine(ReadLine(file, j), 2) = Readable(appended[i].row)
    BY <2>2, <2>3 DEF RowAtOffset
  <2>5. PICK n \in DOMAIN rows : rows[n] = Entry(file, 2, j)
    BY <1>4, <1>7, <2>1
  <2> QED BY <2>4, <2>5 DEF Entry
<1> QED BY <1>3, <1>9, <1>10

\* A torn append spoils the line it is in, which what comes next continues, and no other
\* (append_row_to_table_with_offset against scan_table_rows_with_offsets).
THEOREM TearsSpoilTheirLine == Spec => []TearsSpoilOneLine
<1>1. FileInv => TearsSpoilOneLine
  BY TearsSpoilLines
<1> QED BY <1>1, FileIsAppends, PTL

-----------------------------------------------------------------------------
(* Digits that run together.                                               *)

\* Spelled from one digit to the next.
LEMMA SpelledAppend ==
  /\ Spelled(<<>>) = 0
  /\ \A word \in Seq(Digit) :
        /\ Spelled(word) \in Nat
        /\ \A c \in Digit : Spelled(Append(word, c)) = Spelled(word) * 10 + DigitOf[c]
<1>1. Spelled(<<>>) = 0
  <2>1. <<>> \in Seq(Digit)
    OBVIOUS
  <2>2. PICK f : Spells(f, <<>>)
    BY <2>1, SpelledSteps
  <2> QED BY <2>2 DEF Spells
<1>2. ASSUME NEW word \in Seq(Digit) PROVE Spelled(word) \in Nat
  <2>1. PICK f : Spells(f, word)
    BY SpelledSteps
  <2>2. Len(word) \in 0..Len(word)
    BY LenProperties
  <2> QED BY <2>1, <2>2 DEF Spells
<1>3. ASSUME NEW word \in Seq(Digit), NEW c \in Digit
      PROVE  Spelled(Append(word, c)) = Spelled(word) * 10 + DigitOf[c]
  <2> DEFINE longer == Append(word, c)
             N == Len(word)
  <2>1. /\ longer \in Seq(Digit) /\ Len(longer) = N + 1 /\ N \in Nat
        /\ longer[N + 1] = c /\ \A i \in 1..N : longer[i] = word[i]
    BY AppendProperties, LenProperties
  <2> HIDE DEF longer
  <2>2. PICK f : Spells(f, word)
    BY SpelledSteps
  <2>3. PICK g : Spells(g, longer)
    BY <2>1, SpelledSteps
  <2>4. f[0] = 0 /\ \A i \in 1..N : f[i] = f[i - 1] * 10 + DigitOf[word[i]]
    BY <2>2 DEF Spells
  <2>5. g[0] = 0 /\ \A i \in 1..(N + 1) : g[i] = g[i - 1] * 10 + DigitOf[longer[i]]
    BY <2>1, <2>3 DEF Spells
  <2>6. SameSteps(f, g, N)
    <3>1. \A i \in 1..N : i \in 1..(N + 1)
      BY <2>1
    <3>2. \A i \in 1..N : g[i] = g[i - 1] * 10 + DigitOf[word[i]]
      BY <2>1, <2>5, <3>1
    <3> QED BY <2>4, <2>5, <3>2 DEF SameSteps
  <2>7. SameUpTo(f, g, N)
    <3> HIDE DEF N
    <3> QED BY <2>1, <2>6, SameRecursion
  <2>8. g[N] = f[N] /\ g[N + 1] = g[N] * 10 + DigitOf[c]
    <3>1. N \in 0..N /\ N + 1 \in 1..(N + 1) /\ (N + 1) - 1 = N
      BY <2>1
    <3> QED BY <2>1, <2>5, <2>7, <3>1 DEF SameUpTo
  <2>9. Spelled(word) = f[N] /\ Spelled(longer) = g[N + 1]
    BY <2>1, <2>2, <2>3 DEF Spells
  <2> QED BY <2>8, <2>9 DEF longer
<1> QED BY <1>1, <1>2, <1>3

\* The power of ten in front of a number has as many zeros as the number has digits.
LEMMA ShiftIs ==
  ASSUME NEW n \in Nat
  PROVE  /\ Abstract!Shift(n) \in Nat \ {0}
         /\ n < 10 => Abstract!Shift(n) = 10
         /\ \A d \in 0..9 : n # 0 => Abstract!Shift(n * 10 + d) = 10 * Abstract!Shift(n)
<1> DEFINE V == Nat \ {0}
           base == 10
           Next10(n1, v) == IF n1 < 10 THEN 10 ELSE 10 * v
           Powers(f, N) == /\ f \in [0..N -> V] /\ f[0] = base
                           /\ \A m \in 1..N : f[m] = Next10(m, f[m \div 10])
<1>1. ASSUME NEW N \in Nat PROVE \E f : Powers(f, N) /\ Abstract!Shift(N) = f[N]
  <2> DEFINE G == [p \in (1..N) \X V |-> Next10(p[1], p[2])]
  <2>1. \A m \in 1..N : \A v \in V : G[<<m, v>>] = Next10(m, v) /\ Next10(m, v) \in V
    OBVIOUS
  <2>2. StaysIn(G, N, V) /\ base \in V
    BY <2>1 DEF StaysIn
  <2> HIDE DEF G, V, base, Next10
  <2>3. PICK g : RecursByTens(g, N, V, base, G)
    BY <2>2, ByTens
  <2>4. Powers(g, N)
    <3>1. g \in [0..N -> V] /\ g[0] = base /\ \A m \in 1..N : g[m] = G[<<m, g[m \div 10]>>]
      BY <2>3 DEF RecursByTens
    <3>2. \A m \in 1..N : m \div 10 \in 0..N
      OBVIOUS
    <3> QED BY <2>1, <3>1, <3>2
  <2> DEFINE Is(f) == f = [m \in 0..N |-> IF m < 10 THEN 10 ELSE 10 * f[m \div 10]]
             found == CHOOSE f : Is(f)
  <2>5. Is(g)
    <3>1. \A m \in 0..N : g[m] = IF m < 10 THEN 10 ELSE 10 * g[m \div 10]
      <4> TAKE m \in 0..N
      <4>1. m = 0 \/ m \in 1..N
        OBVIOUS
      <4> QED BY <2>4, <4>1 DEF Next10, base
    <3> QED BY <2>4, <3>1
  <2>6. Is(found)
    <3> HIDE DEF Is
    <3> QED BY <2>5
  <2>7. Abstract!Shift(N) = found[N]
    BY DEF Abstract!Shift
  <2> HIDE DEF found
  <2>8. PICK h : h = found /\ h[0] = base /\ \A m \in 1..N : h[m] = Next10(m, h[m \div 10])
    <3>1. 0 \in 0..N /\ \A m \in 1..N : m \in 0..N
      OBVIOUS
    <3> QED BY <2>6, <3>1 DEF base, Next10
  <2>9. SameByTens(h, g, N)
    BY <2>4, <2>8 DEF SameByTens
  <2>10. SameUpTo(h, g, N)
    BY <2>9, SameRecursionByTens
  <2>11. Abstract!Shift(N) = g[N]
    BY <2>7, <2>8, <2>10 DEF SameUpTo
  <2> QED BY <2>4, <2>11
<1>2. PICK f : Powers(f, n) /\ Abstract!Shift(n) = f[n]
  BY <1>1
<1>3. Abstract!Shift(n) \in Nat \ {0}
  BY <1>2
<1>4. ASSUME n < 10 PROVE Abstract!Shift(n) = 10
  <2>1. n = 0 \/ n \in 1..n
    OBVIOUS
  <2> QED BY <1>2, <1>4, <2>1
<1>5. ASSUME NEW d \in 0..9, n # 0 PROVE Abstract!Shift(n * 10 + d) = 10 * Abstract!Shift(n)
  <2> DEFINE N == n * 10 + d
  <2>1. N \in Nat /\ N \div 10 = n /\ ~(N < 10) /\ N \in 1..N /\ n \in 0..N
    BY <1>5
  <2> HIDE DEF N, Powers
  <2>2. PICK g : Powers(g, N) /\ Abstract!Shift(N) = g[N]
    BY <1>1, <2>1
  <2>3. g[N] = 10 * g[n]
    BY <2>1, <2>2 DEF Powers
  <2>4. SameByTens(f, g, n)
    <3>1. \A m \in 1..n : m \in 1..N
      BY <2>1
    <3> QED BY <1>2, <2>2, <3>1 DEF SameByTens, Powers
  <2>5. SameUpTo(f, g, n)
    BY <2>4, SameRecursionByTens
  <2>6. f[n] = g[n]
    BY <2>5 DEF SameUpTo
  <2> QED BY <1>2, <2>2, <2>3, <2>6 DEF N
<1> QED BY <1>3, <1>4, <1>5

\* The digits of a number have a first one.
Numbered(word) == word \in Seq(Digit) /\ word # <<>> /\ word[1] # "0"

\* Each digit has one numeral; only zero is written 0.
LEMMA NumeralsDistinct ==
  /\ \A i, j \in 1..10 : Numerals[i] = Numerals[j] => i = j
  /\ \A k \in 0..9 : DigitOf[Numerals[1 + k]] = k
  /\ \A c \in Digit : c # "0" => DigitOf[c] \in 1..9
  /\ \A k \in 1..9 : Numerals[1 + k] # "0"
<1>1. \A i, j \in 1..10 : Numerals[i] = Numerals[j] => i = j
  BY DEF Numerals
<1>2. \A c \in Digit : DigitOf[c] = (CHOOSE n \in 1..10 : Numerals[n] = c) - 1
  BY DEF DigitOf, Digit
<1>3. ASSUME NEW k \in 0..9 PROVE DigitOf[Numerals[1 + k]] = k
  <2>1. 1 + k \in 1..10 /\ Numerals[1 + k] \in Digit
    BY NumeralsTyped
  <2> DEFINE m == CHOOSE n \in 1..10 : Numerals[n] = Numerals[1 + k]
  <2>2. m \in 1..10 /\ Numerals[m] = Numerals[1 + k]
    BY <2>1
  <2>3. m = 1 + k
    BY <1>1, <2>1, <2>2
  <2> QED BY <1>2, <2>1, <2>3
<1>4. Numerals[1] = "0"
  BY DEF Numerals
<1>5. \A k \in 1..9 : Numerals[1 + k] # "0"
  <2> TAKE k \in 1..9
  <2>1. 1 + k \in 1..10 /\ 1 + k # 1 /\ 1 \in 1..10
    OBVIOUS
  <2> QED BY <1>1, <1>4, <2>1
<1>6. ASSUME NEW c \in Digit, c # "0" PROVE DigitOf[c] \in 1..9
  <2>1. PICK n \in 1..10 : Numerals[n] = c
    <3>1. DOMAIN Numerals = 1..10
      BY NumeralsTyped, LenProperties
    <3> QED BY <3>1 DEF Digit, ToSet
  <2>2. n - 1 \in 0..9 /\ 1 + (n - 1) = n /\ n # 1
    BY <1>4, <1>6, <2>1
  <2>3. DigitOf[c] = n - 1
    BY <1>3, <2>1, <2>2
  <2> QED BY <2>2, <2>3
<1> QED BY <1>1, <1>3, <1>5, <1>6

\* The text of an id is its number.
LEMMA IdTextIs ==
  ASSUME NEW id \in Nat \ {0}
  PROVE  Numbered(IdText(id)) /\ Spelled(IdText(id)) = id
<1>1. PICK f : TextsOfIds(f, id)
  BY IdTextSteps
<1>2. /\ f \in [0..id -> Seq(Digit)] /\ f[0] = <<>> /\ IdText(id) = f[id]
      /\ \A n \in 1..id : f[n] = Append(f[n \div 10], Numerals[1 + (n % 10)])
  BY <1>1 DEF TextsOfIds
<1> DEFINE T == {n \in Nat : \A m \in 1..id : m < n => Numbered(f[m]) /\ Spelled(f[m]) = m}
<1>3. 0 \in T
  OBVIOUS
<1>4. ASSUME NEW n \in Nat, n \in T PROVE n + 1 \in T
  <2> SUFFICES ASSUME NEW m \in 1..id, m < n + 1 PROVE Numbered(f[m]) /\ Spelled(f[m]) = m
    OBVIOUS
  <2> DEFINE q == m \div 10
             k == m % 10
             c == Numerals[1 + k]
  <2>1. q \in 0..id /\ q < n /\ k \in 0..9 /\ m = q * 10 + k
    OBVIOUS
  <2>2. f[m] = Append(f[q], c) /\ f[q] \in Seq(Digit) /\ c \in Digit /\ DigitOf[c] = k
    <3>1. f[m] = Append(f[q], c) /\ f[q] \in Seq(Digit)
      BY <1>2, <2>1
    <3>2. 1 + k \in 1..10
      BY <2>1
    <3> HIDE DEF q, k
    <3>3. c \in Digit /\ DigitOf[c] = k
      BY <2>1, <3>2, NumeralsTyped, NumeralsDistinct
    <3> QED BY <3>1, <3>3
  <2>3. q # 0 => Numbered(f[q]) /\ Spelled(f[q]) = q
    BY <1>4, <2>1
  <2>4. k # 0 => c # "0"
    BY <2>1, NumeralsDistinct
  <2> HIDE DEF q, k, c
  <2>5. Spelled(f[q]) = q
    <3>1. q = 0 => f[q] = <<>> /\ Spelled(f[q]) = 0
      BY <1>2, SpelledAppend
    <3> QED BY <2>3, <3>1
  <2>6. Spelled(f[m]) = m
    <3>1. Spelled(Append(f[q], c)) = Spelled(f[q]) * 10 + DigitOf[c]
      BY <2>2, SpelledAppend
    <3> QED BY <2>1, <2>2, <2>5, <3>1
  <2>7. Numbered(f[m])
    <3>1. /\ Append(f[q], c) \in Seq(Digit) /\ Len(Append(f[q], c)) = Len(f[q]) + 1
          /\ Append(f[q], c)[Len(f[q]) + 1] = c
          /\ \A i \in 1..Len(f[q]) : Append(f[q], c)[i] = f[q][i]
      BY <2>2, AppendProperties
    <3>2. Len(f[q]) \in Nat
      BY <2>2, LenProperties
    <3>3. Append(f[q], c) # <<>>
      BY <3>1, <3>2, EmptySeq
    <3>4. CASE q = 0
      <4>1. Len(f[q]) = 0 /\ k # 0
        <5>1. f[q] = <<>>
          BY <1>2, <3>4
        <5> QED BY <2>1, <3>4, <5>1
      <4>2. Append(f[q], c)[1] = c
        BY <3>1, <4>1
      <4> QED BY <2>2, <2>4, <3>1, <3>3, <4>1, <4>2 DEF Numbered
    <3>5. CASE q # 0
      <4>1. f[q] # <<>> /\ f[q][1] # "0"
        BY <2>3, <3>5 DEF Numbered
      <4>2. 1 \in 1..Len(f[q])
        <5>1. Len(f[q]) # 0
          BY <2>2, <4>1, EmptySeq
        <5> QED BY <3>2, <5>1
      <4> QED BY <2>2, <3>1, <3>3, <4>1, <4>2 DEF Numbered
    <3> QED BY <3>4, <3>5
  <2> QED BY <2>6, <2>7
<1> HIDE DEF T
<1>5. id + 1 \in T
  BY <1>3, <1>4, NatInduct
<1>6. id \in 1..id /\ id < id + 1
  OBVIOUS
<1> QED BY <1>2, <1>5, <1>6 DEF T

\* Digits behind digits: the number in front moves up by the power of the one behind.
LEMMA SpelledConcat ==
  ASSUME NEW front \in Seq(Digit)
  PROVE  \A back \in Seq(Digit) : Numbered(back) =>
            /\ front \o back \in Seq(Digit) /\ Spelled(back) \in Nat \ {0}
            /\ Spelled(front \o back) = Spelled(front) * Abstract!Shift(Spelled(back)) + Spelled(back)
<1> DEFINE a == Spelled(front)
           Fits(w) == /\ Spelled(w) \in Nat \ {0}
                      /\ Spelled(front \o w) = a * Abstract!Shift(Spelled(w)) + Spelled(w)
           P == {w \in Seq(Digit) : Numbered(w) => Fits(w)}
<1>1. <<>> \in P
  <2>1. <<>> \in Seq(Digit) /\ ~Numbered(<<>>)
    BY DEF Numbered
  <2> QED BY <2>1
<1>2. ASSUME NEW w \in Seq(Digit), NEW c \in Digit, w \in P PROVE Append(w, c) \in P
  <2> DEFINE u == Append(w, c)
             d == DigitOf[c]
             b == Spelled(w)
  <2>1. u \in Seq(Digit) /\ Len(u) = Len(w) + 1 /\ u[Len(w) + 1] = c /\ \A i \in 1..Len(w) : u[i] = w[i]
    BY AppendProperties
  <2>2. /\ a \in Nat /\ b \in Nat /\ d \in 0..9 /\ Spelled(u) = b * 10 + d
        /\ Spelled(front \o w) \in Nat /\ Spelled(Append(front \o w, c)) = Spelled(front \o w) * 10 + d
    <3>1. front \o w \in Seq(Digit)
      BY ConcatProperties
    <3> QED BY <3>1, SpelledAppend, DigitValue
  <2>3. front \o u = Append(front \o w, c)
    BY AppendConcat
  <2> SUFFICES ASSUME Numbered(u) PROVE Fits(u)
    BY <2>1
  <2>4. CASE w = <<>>
    <3>1. c # "0" /\ b = 0 /\ front \o w = front
      <4>1. Len(w) = 0 /\ u[1] = c
        BY <2>1, <2>4
      <4> QED BY <2>4, <4>1, SpelledAppend DEF Numbered
    <3>2. d \in 1..9
      BY <3>1, NumeralsDistinct
    <3>3. Spelled(u) = d /\ Spelled(front \o u) = a * 10 + d
      BY <2>2, <2>3, <3>1, <3>2
    <3>4. Abstract!Shift(d) = 10
      <4> HIDE DEF d
      <4>1. d \in Nat /\ d < 10
        BY <3>2
      <4> QED BY <4>1, ShiftIs
    <3> QED BY <3>2, <3>3, <3>4
  <2>5. CASE w # <<>>
    <3>1. Numbered(w)
      <4>1. Len(w) \in Nat /\ Len(w) # 0
        BY <2>5, EmptySeq, LenProperties
      <4>2. 1 \in 1..Len(w)
        BY <4>1
      <4> QED BY <2>1, <2>5, <4>2 DEF Numbered
    <3>2. Fits(w)
      BY <1>2, <3>1
    <3> DEFINE s == Abstract!Shift(b)
    <3>3. b \in Nat \ {0} /\ Spelled(front \o w) = a * s + b
      BY <3>2
    <3>4. s \in Nat \ {0} /\ Abstract!Shift(b * 10 + d) = 10 * s
      BY <2>2, <3>3, ShiftIs
    <3>5. Spelled(u) = b * 10 + d /\ Spelled(front \o u) = (a * s + b) * 10 + d
      BY <2>2, <2>3, <3>3
    <3> HIDE DEF a, b, d, s, u
    <3>6. a * s \in Nat /\ a * (10 * s) = (a * s) * 10
      BY <2>2, <3>4
    <3>7. (a * s + b) * 10 + d = a * (10 * s) + (b * 10 + d) /\ b * 10 + d \in Nat \ {0}
      BY <2>2, <3>3, <3>6
    <3> QED BY <3>4, <3>5, <3>7
  <2> QED BY <2>4, <2>5
<1> HIDE DEF P, Fits, a
<1>3. \A w \in Seq(Digit) : w \in P
  BY <1>1, <1>2, SeqInduct
<1>4. \A w \in Seq(Digit) : front \o w \in Seq(Digit)
  BY ConcatProperties
<1> QED BY <1>3, <1>4 DEF P, Fits, a

\* A part of the digits from the first on spells a smaller number.
LEMMA SpelledPart ==
  ASSUME NEW front \in Seq(Digit), NEW back \in Seq(Digit)
  PROVE  Spelled(front) <= Spelled(front \o back)
<1> DEFINE P == {w \in Seq(Digit) : Spelled(front) <= Spelled(front \o w)}
<1>1. <<>> \in P
  <2>1. front \o <<>> = front /\ Spelled(front) \in Nat
    BY SpelledAppend
  <2> QED BY <2>1
<1>2. ASSUME NEW w \in Seq(Digit), NEW c \in Digit, w \in P PROVE Append(w, c) \in P
  <2>1. front \o w \in Seq(Digit) /\ Append(w, c) \in Seq(Digit)
    BY ConcatProperties, AppendProperties
  <2>2. Spelled(front \o Append(w, c)) = Spelled(front \o w) * 10 + DigitOf[c]
    <3>1. front \o Append(w, c) = Append(front \o w, c)
      BY AppendConcat
    <3> QED BY <2>1, <3>1, SpelledAppend
  <2>3. Spelled(front) \in Nat /\ Spelled(front \o w) \in Nat /\ DigitOf[c] \in 0..9
    BY <2>1, SpelledAppend, DigitValue
  <2>4. Spelled(front) <= Spelled(front \o w)
    BY <1>2
  <2>5. Spelled(front) <= Spelled(front \o Append(w, c))
    BY <2>2, <2>3, <2>4
  <2> QED BY <2>1, <2>5
<1> HIDE DEF P
<1>3. back \in P
  BY <1>1, <1>2, SeqInduct
<1> QED BY <1>3 DEF P

\* parse_canonical_positive_uint64 on digits.
LEMMA ParseIdIs ==
  ASSUME NEW word, Numbered(word)
  PROVE  /\ Spelled(word) \in Nat \ {0}
         /\ ParseId(word) = IF Spelled(word) <= MaxId THEN Spelled(word) ELSE 0
<1>1. word \in Seq(Digit) /\ word # <<>> /\ word[1] # "0"
  BY DEF Numbered
<1>2. PICK f : IdRuns(f, word)
  BY <1>1, ParseIdSteps
<1>3. PICK p : Spells(p, word)
  BY <1>1, SpelledSteps
<1>4. IF p[Len(word)] <= MaxId THEN f[Len(word)].value = p[Len(word)] ELSE f[Len(word)] = NoId
  BY <1>1, <1>2, <1>3, ValueIsSpelled
<1>5. Spelled(word) = p[Len(word)] /\ NoId.value = 0
  BY <1>3 DEF Spells, NoId
<1>6. ParseId(word) = f[Len(word)].value
  BY <1>1, <1>2 DEF IdRuns
<1>7. Spelled(word) \in Nat \ {0}
  <2>1. <<>> \in Seq(Digit) /\ <<>> \o word = word
    BY <1>1
  <2> QED BY <1>1, <2>1, SpelledConcat
<1> QED BY <1>4, <1>5, <1>6, <1>7

-----------------------------------------------------------------------------
(* The first field of a line.                                              *)

\* No digit is a sign of the line format.
LEMMA DigitChars ==
  /\ Digit \subseteq InLine(Chars) /\ Digit \subseteq Chars
  /\ \A c \in Digit : c \notin {Backslash, Bar, Newline, Return, "n"}
<1>1. \A c \in Digit : c \notin {Backslash, Bar, Newline, Return, "n"}
  BY DEF Digit, Numerals, ToSet, Backslash, Bar, Newline, Return
<1>2. Digit \subseteq Chars
  BY DEF Chars
<1> QED BY <1>1, <1>2 DEF InLine

\* escape_field leaves digits as they are.
LEMMA EscapeDigits ==
  ASSUME NEW word \in Seq(Digit)
  PROVE  Escape(word) = word
<1> DEFINE P == {w \in Seq(Digit) : Escape(w) = w}
<1>1. <<>> \in P
  BY CharsAreCharset, EscapeAppend
<1>2. ASSUME NEW w \in Seq(Digit), NEW c \in Digit, w \in P PROVE Append(w, c) \in P
  <2>1. c \in Chars /\ w \in Seq(Chars) /\ Append(w, c) \in Seq(Digit)
    BY DigitChars, SeqMonotonic, AppendProperties
  <2>2. Escaped(c) = <<c>>
    BY <2>1, DigitChars, CharsAreCharset, EscapedChars
  <2>3. Escape(Append(w, c)) = w \o <<c>>
    BY <1>2, <2>1, <2>2, CharsAreCharset, EscapeAppend
  <2>4. Append(w, c) = w \o <<c>>
    BY AppendIsConcat
  <2> QED BY <2>1, <2>3, <2>4
<1> HIDE DEF P
<1>3. word \in P
  BY <1>1, <1>2, SeqInduct
<1> QED BY <1>3 DEF P

\* The line begins with these digits, and its first field ends behind them.
Begins(t, word) ==
    \/ t = word
    \/ \E rest \in Seq(InLine(Chars)) : t = word \o (<<Bar>> \o rest)

\* What is read behind the first field leaves it as it is.
LEMMA FirstStays ==
  ASSUME NEW st \in States(Chars), st.fields # <<>>
  PROVE  \A t \in Seq(Chars) : /\ SplitRun(st, t) \in States(Chars)
                               /\ SplitRun(st, t).fields # <<>>
                               /\ SplitRun(st, t).fields[1] = st.fields[1]
<1> DEFINE w == st.fields[1]
           Kept(s) == s \in States(Chars) /\ s.fields # <<>> /\ s.fields[1] = w
           P == {t \in Seq(Chars) : Kept(SplitRun(st, t))}
<1>1. <<>> \in P
  <2>1. <<>> \in Seq(Chars)
    OBVIOUS
  <2>2. SplitRun(st, <<>>) = st
    BY <2>1, CharsAreCharset, SplitRunAppend
  <2> QED BY <2>1, <2>2
<1> HIDE DEF w
<1>2. ASSUME NEW t \in Seq(Chars), NEW c \in Chars, t \in P PROVE Append(t, c) \in P
  <2> DEFINE s == SplitRun(st, t)
  <2>1. Kept(s)
    BY <1>2
  <2>2. SplitRun(st, Append(t, c)) = SplitStep(s, c) /\ Append(t, c) \in Seq(Chars)
    BY CharsAreCharset, SplitRunAppend, AppendProperties
  <2> HIDE DEF s
  <2>3. SplitStep(s, c) \in States(Chars)
    BY <2>1, CharsAreCharset, SplitStepTyped
  <2>4. SplitStep(s, c).fields # <<>> /\ SplitStep(s, c).fields[1] = w
    <3>1. CASE c = Bar /\ ~s.escape_pending
      <4> DEFINE e == Unescape(s.raw)
                 fields == s.fields
                 more == Append(fields, e)
      <4>1. SplitStep(s, c).fields = more
        <5>1. SplitStep(s, c) = EndsField(s)
          BY <3>1 DEF SplitStep
        <5> QED BY <2>1, <5>1 DEF EndsField, States
      <4>2. fields \in Seq(Fields(Chars)) /\ fields # <<>> /\ fields[1] = w
        BY <2>1 DEF States
      <4> HIDE DEF fields, e
      <4>3. Len(fields) \in Nat \ {0}
        BY <4>2, LenProperties, EmptySeq
      <4>4. more \in Seq(Fields(Chars) \cup {e}) /\ Len(more) = Len(fields) + 1 /\ more[1] = fields[1]
        BY <4>2, <4>3, AppendAt
      <4>5. more # <<>>
        BY <4>3, <4>4, EmptySeq
      <4> QED BY <4>1, <4>2, <4>4, <4>5
    <3>2. CASE ~(c = Bar /\ ~s.escape_pending)
      <4>1. SplitStep(s, c).fields = s.fields
        BY <2>1, <3>2 DEF SplitStep, States
      <4> QED BY <2>1, <4>1
    <3> QED BY <3>1, <3>2
  <2> QED BY <2>2, <2>3, <2>4
<1> HIDE DEF P
<1>3. \A t \in Seq(Chars) : t \in P
  BY <1>1, <1>2, SeqInduct
<1> QED BY <1>3 DEF P, w

\* split_escaped_row finds the digits a good line begins with.
LEMMA FirstField ==
  ASSUME NEW t \in Seq(InLine(Chars)), NEW word \in Seq(Digit), Begins(t, word), ~HasBadEscape(t)
  PROVE  ParseLine(t, 2)[1] = word
<1> DEFINE nothing == <<>>
<1>1. /\ IsCharset(Chars) /\ nothing \in Seq(Fields(Chars)) /\ nothing \in Seq(Chars)
      /\ word \in Seq(Chars) /\ t \in Seq(Chars)
  BY CharsAreCharset, DigitChars, SeqMonotonic, BarTyped
<1>2. SplitStart = Free(nothing, nothing)
  BY DEF SplitStart, Free
<1>3. Escape(word) = word /\ Unescape(word) = word
  BY <1>1, EscapeDigits, UnescapeEscape
<1>4. SplitRun(SplitStart, word) = Free(nothing, word)
  <2>1. SplitRun(Free(nothing, nothing), Escape(word)) = Free(nothing, nothing \o Escape(word))
    BY <1>1, SplitEscape
  <2> QED BY <1>2, <1>3, <2>1
<1> DEFINE st == SplitRun(SplitStart, t)
           fields == EndsField(st).fields
<1>5. Split(t) = fields /\ Split(t) \in Seq(Seq(Chars)) /\ Split(t) # <<>> /\ Split(t) # MalformedRow
  <2>1. Split(t) \in Seq(Seq(Chars)) /\ Split(t) # <<>> /\ Split(t) # MalformedRow
    BY <1>1, SplitLine
  <2> QED BY <2>1 DEF Split
<1>6. fields[1] = word
  <2>1. CASE t = word
    <3>1. EndsField(Free(nothing, word)).fields = Append(nothing, Unescape(word))
      BY DEF EndsField, Free
    <3>2. fields = Append(nothing, word)
      BY <1>3, <1>4, <2>1, <3>1
    <3> QED BY <3>2
  <2>2. ASSUME NEW rest \in Seq(InLine(Chars)), t = word \o (<<Bar>> \o rest) PROVE fields[1] = word
    <3> DEFINE bar == <<Bar>>
               one == <<word>>
               behind == bar \o rest
    <3>1. bar \in Seq(Chars) /\ rest \in Seq(Chars) /\ Bar \in Chars /\ behind \in Seq(Chars)
      BY <1>1, BarTyped, ConcatProperties
    <3>2. one \in Seq(Fields(Chars)) /\ Append(nothing, word) = one /\ one # <<>> /\ one[1] = word
      BY <1>1 DEF Fields
    <3> HIDE DEF bar, one, nothing
    <3>3. SplitRun(Free(nothing, word), bar) = Free(one, nothing)
      <4>1. SplitRun(Free(nothing, word), <<Bar>>) = Free(Append(nothing, Unescape(word)), <<>>)
        BY <1>1, <3>1, SplitOne
      <4> QED BY <1>3, <3>2, <4>1 DEF bar, nothing
    <3>4. /\ Free(nothing, nothing) \in States(Chars) /\ Free(nothing, word) \in States(Chars)
          /\ Free(one, nothing) \in States(Chars) /\ Free(one, nothing).fields = one
      BY <1>1, <3>2, StateTyped
    <3>5. st = SplitRun(Free(nothing, word), behind)
      <4>1. t = word \o behind
        BY <2>2 DEF bar
      <4>2. SplitStart \in States(Chars)
        BY <1>2, <3>4
      <4> HIDE DEF behind
      <4>3. SplitRun(SplitStart, word \o behind) = SplitRun(SplitRun(SplitStart, word), behind)
        BY <1>1, <3>1, <4>2, SplitRunConcat
      <4> QED BY <1>4, <4>1, <4>3
    <3>6. SplitRun(Free(nothing, word), behind) = SplitRun(Free(one, nothing), rest)
      BY <1>1, <3>1, <3>3, <3>4, SplitRunConcat
    <3>7. st \in States(Chars) /\ st.fields # <<>> /\ st.fields[1] = word
      BY <3>1, <3>2, <3>4, <3>5, <3>6, FirstStays
    <3> DEFINE e == Unescape(st.raw)
               before == st.fields
    <3>8. fields = Append(before, e) /\ before \in Seq(Fields(Chars)) /\ before # <<>> /\ before[1] = word
      BY <3>7 DEF EndsField, States
    <3> HIDE DEF before, e, fields
    <3>9. Len(before) \in Nat \ {0}
      BY <3>8, LenProperties, EmptySeq
    <3> QED BY <3>8, <3>9, AppendAt
  <2> QED BY <2>1, <2>2 DEF Begins
<1> HIDE DEF fields
<1>7. ParseLine(t, 2) = Normalize(fields, 2)
  BY <1>5 DEF ParseLine
<1>8. 1 \in DOMAIN fields
  <2> DEFINE A == Seq(Chars)
  <2>1. fields \in Seq(A) /\ fields # <<>>
    BY <1>5
  <2> HIDE DEF A
  <2>2. Len(fields) \in Nat /\ Len(fields) # 0 /\ DOMAIN fields = 1..Len(fields)
    BY <2>1, LenProperties, EmptySeq
  <2> QED BY <2>2
<1> QED BY <1>6, <1>7, <1>8 DEF Normalize

\* The end of the line that read_line drops is not in its first field.
LEMMA BeginsWithoutReturn ==
  ASSUME NEW t \in Seq(InLine(Chars)), NEW word \in Seq(Digit), word # <<>>, Begins(t, word)
  PROVE  WithoutReturn(t) \in Seq(InLine(Chars)) /\ Begins(WithoutReturn(t), word)
<1>1. WithoutReturn(t) \in Seq(InLine(Chars))
  BY WithoutReturnTyped
<1>2. word \in Seq(InLine(Chars)) /\ Last(word) # Return
  <2>1. PICK w \in Seq(Digit), c \in Digit : word = Append(w, c)
    BY SequenceEmptyOrAppend
  <2>2. Last(word) = c
    BY <2>1, LastAppend
  <2> QED BY <2>2, DigitChars, SeqMonotonic
<1>3. CASE t = word
  BY <1>1, <1>2, <1>3 DEF Begins, WithoutReturn
<1>4. ASSUME NEW rest \in Seq(InLine(Chars)), t = word \o (<<Bar>> \o rest)
      PROVE  Begins(WithoutReturn(t), word)
  <2> DEFINE bar == <<Bar>>
             more == bar \o rest
  <2>1. bar \in Seq(InLine(Chars)) /\ Last(bar) # Return
    <3>1. Last(bar) = Bar
      BY DEF Last
    <3> QED BY <3>1, CharsAreCharset, BarTyped DEF Bar, Return
  <2> HIDE DEF bar
  <2>2. more \in Seq(InLine(Chars))
    BY <2>1, ConcatProperties
  <2>3. WithoutReturn(more) = bar \o WithoutReturn(rest) /\ WithoutReturn(rest) \in Seq(InLine(Chars))
    BY <2>1, WithoutReturnConcat, WithoutReturnTyped
  <2> HIDE DEF more
  <2>4. WithoutReturn(word \o more) = word \o WithoutReturn(more)
    BY <1>2, <2>2, WithoutReturnConcat
  <2>5. t = word \o more
    BY <1>4 DEF more, bar
  <2>6. WithoutReturn(t) = word \o (bar \o WithoutReturn(rest))
    BY <2>3, <2>4, <2>5
  <2> QED BY <2>3, <2>6 DEF Begins, bar
<1> QED BY <1>1, <1>3, <1>4 DEF Begins

-----------------------------------------------------------------------------
(* Bad escapes in lines that run together.                                 *)

\* From two texts to the one they make up: a backslash pending at the end of the first
\* is bad before anything that cannot be escaped.
BadTogether(a, t) ==
    /\ BadBefore(a) => BadBefore(a \o t)
    /\ ~BadBefore(a) /\ ~Pending(a) =>
          (BadBefore(a \o t) <=> BadBefore(t)) /\ (Pending(a \o t) <=> Pending(t))
    /\ Pending(a) /\ t # <<>> /\ ~IsEscape(t[1]) => BadBefore(a \o t)

LEMMA BadConcat ==
  ASSUME NEW C, NEW a \in Seq(C)
  PROVE  \A t \in Seq(C) : BadTogether(a, t)
<1> DEFINE P == {t \in Seq(C) : BadTogether(a, t)}
<1>1. <<>> \in P
  <2>1. <<>> \in Seq(C) /\ a \o <<>> = a
    OBVIOUS
  <2>2. ~BadBefore(<<>>) /\ ~Pending(<<>>)
    BY <2>1, BadEscapes
  <2> QED BY <2>1, <2>2 DEF BadTogether
<1>2. ASSUME NEW s \in Seq(C), NEW c \in C, s \in P PROVE Append(s, c) \in P
  <2> DEFINE t == Append(s, c)
             u == a \o s
  <2>1. a \o t = Append(u, c) /\ u \in Seq(C)
    BY AppendConcat, ConcatProperties
  <2>2. BadTogether(a, s)
    BY <1>2
  <2>3. /\ t \in Seq(C) /\ t # <<>>
        /\ IF s = <<>> THEN t[1] = c /\ u = a ELSE t[1] = s[1]
    <3>1. Len(s) \in Nat /\ (Len(s) = 0 <=> s = <<>>)
      BY LenProperties, EmptySeq
    <3>2. t \in Seq(C) /\ Len(t) = Len(s) + 1 /\ t[Len(s) + 1] = c /\ \A i \in 1..Len(s) : t[i] = s[i]
      BY AppendProperties
    <3> HIDE DEF t
    <3>3. t # <<>>
      BY <3>1, <3>2, EmptySeq
    <3>4. CASE s = <<>>
      <4>1. t[1] = c
        BY <3>1, <3>2, <3>4
      <4>2. u = a
        BY <3>4
      <4> QED BY <3>2, <3>3, <3>4, <4>1, <4>2
    <3>5. CASE s # <<>>
      <4>1. 1 \in 1..Len(s)
        BY <3>1, <3>5
      <4> QED BY <3>2, <3>3, <3>5, <4>1
    <3> QED BY <3>4, <3>5
  <2>4. /\ Pending(t) <=> c = Backslash /\ ~Pending(s)
        /\ BadBefore(t) <=> BadBefore(s) \/ (Pending(s) /\ ~IsEscape(c))
    BY BadEscapes
  <2> HIDE DEF t, u
  <2>5. /\ Pending(Append(u, c)) <=> c = Backslash /\ ~Pending(u)
        /\ BadBefore(Append(u, c)) <=> BadBefore(u) \/ (Pending(u) /\ ~IsEscape(c))
    BY <2>1, BadEscapes
  <2>6. BadBefore(a) => BadBefore(u)
    BY <2>2 DEF BadTogether, u
  <2>7. ~BadBefore(a) /\ ~Pending(a) => (BadBefore(u) <=> BadBefore(s)) /\ (Pending(u) <=> Pending(s))
    BY <2>2 DEF BadTogether, u
  <2>8. Pending(a) /\ s # <<>> /\ ~IsEscape(s[1]) => BadBefore(u)
    BY <2>2 DEF BadTogether, u
  <2>9. BadTogether(a, t)
    BY <2>1, <2>3, <2>4, <2>5, <2>6, <2>7, <2>8 DEF BadTogether
  <2> QED BY <2>3, <2>9 DEF t
<1> HIDE DEF P
<1>3. \A t \in Seq(C) : t \in P
  BY <1>1, <1>2, SeqInduct
<1> QED BY <1>3 DEF P

\* The carriage return read_line drops makes no difference to it.
LEMMA BadWithoutReturn ==
  ASSUME NEW C, NEW t \in Seq(C)
  PROVE  HasBadEscape(WithoutReturn(t)) <=> HasBadEscape(t)
<1>1. CASE t # <<>> /\ Last(t) = Return
  <2>1. PICK u \in Seq(C), c \in C : t = Append(u, c)
    BY <1>1, SequenceEmptyOrAppend
  <2>2. Front(t) = u /\ Last(t) = c
    BY <2>1, LastAppend
  <2>3. WithoutReturn(t) = u /\ c = Return
    BY <1>1, <2>2 DEF WithoutReturn
  <2>4. c # Backslash /\ ~IsEscape(c)
    BY <2>3 DEF IsEscape, Return, Backslash, Bar
  <2>5. /\ Pending(Append(u, c)) <=> c = Backslash /\ ~Pending(u)
        /\ BadBefore(Append(u, c)) <=> BadBefore(u) \/ (Pending(u) /\ ~IsEscape(c))
    BY BadEscapes
  <2>6. HasBadEscape(t) <=> BadBefore(t) \/ Pending(t)
    BY BadEscapes
  <2>7. HasBadEscape(u) <=> BadBefore(u) \/ Pending(u)
    BY BadEscapes
  <2> QED BY <2>1, <2>3, <2>4, <2>5, <2>6, <2>7
<1>2. CASE ~(t # <<>> /\ Last(t) = Return)
  BY <1>2 DEF WithoutReturn
<1> QED BY <1>1, <1>2

\* No row is written with a bad escape, nor is a part of its line from the first
\* character on, but for a backslash at the end.
LEMMA BodyIsGood ==
  ASSUME NEW C, IsCharset(C), NEW row \in Seq(Seq(C)), row # <<>>
  PROVE  /\ ~HasBadEscape(Body(row))
         /\ \A front, rest \in Seq(C) : Body(row) = front \o rest =>
               ~BadBefore(front) /\ (HasBadEscape(front) <=> Pending(front))
<1>1. Body(row) \in Seq(InLine(C)) /\ Body(row) \in Seq(C)
  BY LineShape, BarTyped
<1>2. row # MalformedRow
  <2> DEFINE A == Seq(C)
  <2>1. row \in Seq(A)
    OBVIOUS
  <2>2. MalformedValue \notin A
    BY NotMalformed
  <2> HIDE DEF A
  <2>3. Len(row) \in Nat /\ Len(row) # 0
    BY <2>1, LenProperties, EmptySeq
  <2>4. row[1] \in A
    <3>1. 1 \in 1..Len(row)
      BY <2>3
    <3> QED BY <2>1, <3>1, ElementOfSeq
  <2>5. MalformedRow[1] = MalformedValue
    BY DEF MalformedRow
  <2> QED BY <2>2, <2>4, <2>5
<1>3. ~HasBadEscape(Body(row))
  <2>1. Split(Body(row)) = row
    BY ParseBody
  <2> QED BY <1>1, <1>2, <2>1, SplitLine
<1>4. ASSUME NEW front \in Seq(C), NEW rest \in Seq(C), Body(row) = front \o rest
      PROVE  ~BadBefore(front) /\ (HasBadEscape(front) <=> Pending(front))
  <2>1. BadBefore(front) => BadBefore(front \o rest)
    BY BadConcat DEF BadTogether
  <2>2. HasBadEscape(Body(row)) <=> BadBefore(Body(row)) \/ Pending(Body(row))
    BY <1>1, BadEscapes
  <2>3. HasBadEscape(front) <=> BadBefore(front) \/ Pending(front)
    BY BadEscapes
  <2> QED BY <1>3, <1>4, <2>1, <2>2, <2>3
<1> QED BY <1>3, <1>4

-----------------------------------------------------------------------------
(* Lines of several appends.                                               *)

\* These characters stand at a place, and a newline or the end of the file behind them.
Runs(f, offset, t) ==
    /\ Holds(f, offset, t)
    /\ offset + Len(t) = Len(f) + 1 \/ f[offset + Len(t)] = Newline

\* read_line reads up to the newline or the end of the file.
LEMMA ReadRun ==
  ASSUME NEW C, IsCharset(C), NEW f \in Seq(C), NEW offset \in Nat \ {0}, NEW body \in Seq(InLine(C)),
         Runs(f, offset, body)
  PROVE  LineEnd(f, offset) = offset + Len(body) /\ ReadLine(f, offset) = WithoutReturn(body)
<1> DEFINE n == Len(body)
<1>1. /\ n \in Nat /\ Len(f) \in Nat /\ body \in Seq(C)
      /\ \A i \in 1..n : body[i] \in InLine(C)
      /\ \A i \in 1..Len(f) : f[i] \in C
  BY LenProperties, ElementOfSeq, BarTyped
<1>2. /\ offset + n - 1 <= Len(f)
      /\ \A i \in 1..n : f[offset + i - 1] = body[i]
      /\ offset + n = Len(f) + 1 \/ f[offset + n] = Newline
  BY DEF Runs, Holds
<1> HIDE DEF n
<1>3. \A j \in offset..(offset + n - 1) : f[j] # Newline
  <2> TAKE j \in offset..(offset + n - 1)
  <2>1. j - offset + 1 \in 1..n /\ offset + (j - offset + 1) - 1 = j
    BY <1>1
  <2>2. f[j] = body[j - offset + 1]
    BY <1>2, <2>1
  <2> QED BY <1>1, <2>1, <2>2 DEF InLine
<1>4. LineEnd(f, offset) = offset + n
  <2>1. EndsLine(f, offset, offset + n)
    BY <1>1, <1>2, <1>3 DEF EndsLine
  <2>2. offset <= Len(f) + 1
    BY <1>1, <1>2
  <2> QED BY <2>1, <2>2, LineEndIs
<1>5. SubSeq(f, offset, offset + n - 1) = body
  <2> DEFINE r == SubSeq(f, offset, offset + n - 1)
  <2>1. \A j \in offset..(offset + n - 1) : f[j] \in C
    BY <1>1, <1>2
  <2>2. /\ r \in Seq(C)
        /\ Len(r) = IF offset <= offset + n - 1 THEN (offset + n - 1) - offset + 1 ELSE 0
        /\ \A i \in 1..((offset + n - 1) - offset + 1) : r[i] = f[offset + i - 1]
    BY <1>1, <2>1, SubSeqProperties
  <2>3. (offset + n - 1) - offset + 1 = n /\ Len(r) = n
    BY <1>1, <2>2
  <2> HIDE DEF r
  <2>4. \A i \in 1..Len(r) : r[i] = body[i]
    BY <1>1, <1>2, <2>2, <2>3
  <2>5. r = body
    BY <1>1, <2>2, <2>3, <2>4, SeqEqual DEF n
  <2> QED BY <2>5 DEF r
<1>6. LineEnd(f, offset) - 1 = offset + n - 1
  BY <1>1, <1>4
<1>7. ReadLine(f, offset) = WithoutReturn(body)
  BY <1>5, <1>6 DEF ReadLine
<1> QED BY <1>4, <1>7 DEF n

\* A text that goes on in another.
LEMMA RunsOn ==
  ASSUME NEW C, NEW f \in Seq(C), NEW offset \in Nat \ {0}, NEW a \in Seq(C), NEW t \in Seq(C),
         Holds(f, offset, a), Runs(f, offset + Len(a), t)
  PROVE  Runs(f, offset, a \o t)
<1> DEFINE u == a \o t
<1>1. /\ Len(a) \in Nat /\ Len(t) \in Nat /\ Len(f) \in Nat /\ Len(u) = Len(a) + Len(t)
      /\ \A i \in 1..(Len(a) + Len(t)) : u[i] = IF i <= Len(a) THEN a[i] ELSE t[i - Len(a)]
  BY ConcatProperties, LenProperties
<1> HIDE DEF u
<1>2. ASSUME NEW i \in 1..Len(u) PROVE f[offset + i - 1] = u[i]
  <2>1. CASE i <= Len(a)
    <3>1. i \in 1..Len(a)
      BY <1>1, <2>1
    <3> QED BY <1>1, <2>1, <3>1 DEF Holds
  <2>2. CASE ~(i <= Len(a))
    <3>1. i - Len(a) \in 1..Len(t) /\ (offset + Len(a)) + (i - Len(a)) - 1 = offset + i - 1
      BY <1>1, <2>2
    <3>2. f[(offset + Len(a)) + (i - Len(a)) - 1] = t[i - Len(a)]
      BY <3>1 DEF Runs, Holds
    <3> QED BY <1>1, <2>2, <3>1, <3>2
  <2> QED BY <2>1, <2>2
<1>3. offset + Len(u) = (offset + Len(a)) + Len(t)
  BY <1>1
<1>4. offset + Len(u) - 1 <= Len(f)
  <2>1. (offset + Len(a)) + Len(t) - 1 <= Len(f)
    BY DEF Runs, Holds
  <2> QED BY <1>1, <1>3, <2>1
<1>5. Runs(f, offset, u)
  BY <1>2, <1>3, <1>4 DEF Runs, Holds
<1> QED BY <1>5 DEF u

-----------------------------------------------------------------------------
(* What each append holds, and the piece it is to Engine.                  *)

\* An append is the line of a row of the table, or a part of it from its first character on.
Made(append) ==
    \E id \in Ids, value \in Values :
        LET row == RowOf(id, value)
            line == Line(row)
        IN /\ append.row = row
           /\ IF append.cut THEN \E written \in 1..(Len(line) - 1) : append.line = SubSeq(line, 1, written)
              ELSE append.line = line

AllMade == \A i \in DOMAIN appended : Made(appended[i])

\* Whatever is in the file was appended as a row or as a part of one.
LEMMA AppendsAreRows == Spec => []AllMade
<1>1. Init => AllMade
  BY DEF Init, AllMade
<1>2. FileInv /\ AllMade /\ [Next]_vars => AllMade'
  <2> SUFFICES ASSUME FileInv, AllMade, [Next]_vars PROVE AllMade'
    OBVIOUS
  <2>1. ASSUME NEW new, Made(new), appended' = Append(appended, new) PROVE AllMade'
    <3>1. /\ DOMAIN appended' = 1..(Len(appended) + 1) /\ appended'[Len(appended) + 1] = new
          /\ \A i \in 1..Len(appended) : appended'[i] = appended[i]
      BY <2>1, AppendAt DEF FileInv, FileTyped
    <3>2. DOMAIN appended = 1..Len(appended) /\ Len(appended) \in Nat
      BY LenProperties DEF FileInv, FileTyped
    <3>3. ASSUME NEW i \in 1..(Len(appended) + 1) PROVE Made(appended'[i])
      <4>1. i = Len(appended) + 1 \/ i \in 1..Len(appended)
        BY <3>2
      <4> QED BY <2>1, <3>1, <3>2, <4>1 DEF AllMade
    <3> QED BY <3>1, <3>3 DEF AllMade, Made, RowOf, Line
  <2>2. CASE AppendRow
    <3>1. PICK id \in Ids, value \in Values : Writes(RowOf(id, value), Line(RowOf(id, value)), FALSE)
      BY <2>2 DEF AppendRow
    <3> DEFINE new == [offset |-> EndOfFile, row |-> RowOf(id, value), line |-> Line(RowOf(id, value)), cut |-> FALSE]
    <3>2. appended' = Append(appended, new)
      BY <3>1 DEF Writes
    <3>3. Made(new)
      BY DEF Made
    <3> QED BY <2>1, <3>2, <3>3
  <2>3. CASE AppendTorn
    <3>1. PICK id \in Ids, value \in Values :
            \E written \in 1..(Len(Line(RowOf(id, value))) - 1) :
               Writes(RowOf(id, value), SubSeq(Line(RowOf(id, value)), 1, written), TRUE)
      BY <2>3 DEF AppendTorn
    <3>2. PICK written \in 1..(Len(Line(RowOf(id, value))) - 1) :
             Writes(RowOf(id, value), SubSeq(Line(RowOf(id, value)), 1, written), TRUE)
      BY <3>1
    <3> DEFINE new == [offset |-> EndOfFile, row |-> RowOf(id, value),
                       line |-> SubSeq(Line(RowOf(id, value)), 1, written), cut |-> TRUE]
    <3>3. appended' = Append(appended, new)
      BY <3>2 DEF Writes
    <3>4. Made(new)
      BY DEF Made
    <3> QED BY <2>1, <3>3, <3>4
  <2>4. CASE UNCHANGED vars
    BY <2>4, ZenonT(40) DEF vars, AllMade, Made, RowOf, Line
  <2> QED BY <2>2, <2>3, <2>4 DEF Next
<1> QED BY <1>1, <1>2, FileIsAppends, PTL DEF Spec

\* The line of a row without its newline.
LEMMA RowBody ==
  ASSUME NEW id \in Ids, NEW value \in Values
  PROVE  LET row == RowOf(id, value)
             digits == row[1]
         IN /\ Numbered(digits) /\ Spelled(digits) = id /\ id \in 1..MaxId
            /\ Body(row) \in Seq(InLine(Chars)) /\ Line(row) = Body(row) \o <<Newline>>
            /\ \E rest \in Seq(InLine(Chars)) : Body(row) = digits \o (<<Bar>> \o rest)
<1> DEFINE row == RowOf(id, value)
           digits == IdText(id)
<1>1. id \in 1..MaxId /\ id \in Nat \ {0}
  BY RowsAssumption, MaxIdAssumption
<1>2. Numbered(digits) /\ Spelled(digits) = id
  BY <1>1, IdTextIs
<1>3. row[1] = digits /\ row = <<digits, value>>
  BY DEF RowOf
<1>4. row \in Seq(Seq(Chars))
  BY RowOfTyped
<1> DEFINE A == Seq(Chars)
<1>5. digits \in A /\ digits \in Seq(Digit) /\ value \in A
  <2>1. digits \in Seq(Digit)
    BY <1>2 DEF Numbered
  <2>2. digits \in A
    BY <2>1, DigitChars, SeqMonotonic
  <2>3. ToSet(value) \subseteq Chars /\ value \in Seq(ToSet(value))
    BY RowsAssumption DEF Chars
  <2>4. value \in A
    BY <2>3, SeqMonotonic
  <2> QED BY <2>1, <2>2, <2>4
<1>6. Body(row) \in Seq(InLine(Chars)) /\ Line(row) = Body(row) \o <<Newline>>
  BY <1>4, CharsAreCharset, LineShape
<1> DEFINE one == <<digits>>
           none == <<>>
<1>7. /\ one \in Seq(A) /\ one # none /\ none \in Seq(A) /\ Append(none, digits) = one
      /\ Append(one, value) = <<digits, value>>
  <2>0. digits \in A /\ value \in A
    BY <1>5
  <2> HIDE DEF A, digits
  <2>1. one \in Seq(A) /\ one # none /\ none \in Seq(A) /\ Append(none, digits) = one
    BY <2>0
  <2>2. Append(one, value) = one \o <<value>>
    BY <2>0, <2>1, AppendIsConcat
  <2>3. one \o <<value>> = <<digits, value>>
    BY PairIsConcat
  <2> QED BY <2>1, <2>2, <2>3
<1> HIDE DEF one, row, digits
<1>8. Body(one) = Escape(digits)
  <2>1. Body(Append(none, digits)) = Escape(digits)
    BY <1>5, <1>7, CharsAreCharset, BodyAppend
  <2> QED BY <1>7, <2>1
<1>9. Body(row) = Body(one) \o (<<Bar>> \o Escape(value))
  <2>1. Body(Append(one, value)) = Body(one) \o (<<Bar>> \o Escape(value))
    BY <1>5, <1>7, CharsAreCharset, BodyAppend
  <2> QED BY <1>3, <1>7, <2>1
<1>10. Escape(digits) = digits /\ Escape(value) \in Seq(InLine(Chars))
  BY <1>5, EscapeDigits, CharsAreCharset, EscapeInLine
<1> QED BY <1>1, <1>2, <1>3, <1>6, <1>8, <1>9, <1>10 DEF row

\* What stands of an append in front of the newline it may end in.
Stem(append) == IF append.cut THEN append.line ELSE Body(append.row)

\* The word in front of the first bar says id.
StartsWithId(stem, id) ==
    \E word : /\ Numbered(word) /\ Spelled(word) = id
              /\ \E rest \in Seq(InLine(Chars)) : stem = word \o (<<Bar>> \o rest)

HasPiece(stem, id, how) ==
    /\ stem \in Seq(InLine(Chars)) /\ stem # <<>>
    /\ ~BadBefore(stem)
    /\ how \in {"no", "id", "line", "escape"}
    /\ how = "escape" <=> Pending(stem)
    /\ id \in 1..MaxId
    /\ how = "id" => Numbered(stem) /\ Spelled(stem) = id
    /\ how # "id" => StartsWithId(stem, id)

StemIs(append) ==
    /\ HasPiece(Stem(append), PieceOf(append).id, PieceOf(append).cut)
    /\ ~append.cut => append.line = Stem(append) \o <<Newline>>
    /\ PieceOf(append).cut = "no" <=> ~append.cut

\* A whole row: its digits, a bar, its value.
LEMMA StemOfWhole ==
  ASSUME NEW append \in Appends, Made(append), ~append.cut
  PROVE  StemIs(append)
<1>1. PICK id \in Ids, value \in Values : append.row = RowOf(id, value) /\ append.line = Line(RowOf(id, value))
  BY DEF Made
<1> DEFINE row == RowOf(id, value)
           stem == Body(row)
           digits == row[1]
<1>2. /\ Numbered(digits) /\ Spelled(digits) = id /\ id \in 1..MaxId
      /\ stem \in Seq(InLine(Chars)) /\ Line(row) = stem \o <<Newline>>
      /\ \E rest \in Seq(InLine(Chars)) : stem = digits \o (<<Bar>> \o rest)
  BY RowBody
<1>3. row \in Seq(Seq(Chars)) /\ row # <<>>
  BY RowOfTyped
<1> HIDE DEF row, stem, digits
<1>4. append.row = row /\ append.line = Line(row)
  BY <1>1 DEF row
<1>5. Stem(append) = stem
  BY <1>4 DEF Stem, stem
<1>6. PieceOf(append) = [id |-> id, cut |-> "no"]
  BY <1>2, <1>4 DEF PieceOf, digits
<1>7. stem # <<>>
  <2>1. PICK rest \in Seq(InLine(Chars)) : stem = digits \o (<<Bar>> \o rest)
    BY <1>2
  <2>2. digits \in Seq(Chars) /\ digits # <<>> /\ <<Bar>> \o rest \in Seq(Chars)
    <3>1. <<Bar>> \in Seq(Chars) /\ rest \in Seq(Chars)
      BY CharsAreCharset, BarTyped
    <3> QED BY <1>2, <3>1, DigitChars, SeqMonotonic, ConcatProperties DEF Numbered
  <2> DEFINE more == <<Bar>> \o rest
  <2> HIDE DEF more
  <2>3. Len(digits \o more) = Len(digits) + Len(more) /\ Len(digits) \in Nat \ {0} /\ Len(more) \in Nat
    BY <2>2, ConcatProperties, LenProperties, EmptySeq DEF more
  <2>4. digits \o more # <<>>
    <3>1. Len(digits \o more) # 0
      BY <2>3
    <3>2. Len(<<>>) = 0
      OBVIOUS
    <3> QED BY <3>1, <3>2
  <2> QED BY <2>1, <2>4 DEF more
<1>8. ~BadBefore(stem) /\ ~Pending(stem)
  <2>1. stem \in Seq(Chars)
    BY <1>2, CharsAreCharset, BarTyped
  <2>2. ~HasBadEscape(stem)
    BY <1>3, CharsAreCharset, BodyIsGood DEF stem
  <2> QED BY <2>1, <2>2, BadEscapes
<1>9. StartsWithId(stem, id)
  BY <1>2 DEF StartsWithId
<1> HIDE DEF stem
<1>10. HasPiece(stem, id, "no")
  BY <1>2, <1>7, <1>8, <1>9 DEF HasPiece
<1>11. PieceOf(append).id = id /\ PieceOf(append).cut = "no"
  BY <1>6
<1>12. append.line = stem \o <<Newline>>
  BY <1>2, <1>4
<1> QED BY <1>5, <1>10, <1>11, <1>12 DEF StemIs

\* A torn row ends among its digits, or behind them and the bar.
LEMMA StemOfPart ==
  ASSUME NEW append \in Appends, Made(append), append.cut
  PROVE  StemIs(append)
<1>1. PICK id \in Ids, value \in Values :
         /\ append.row = RowOf(id, value)
         /\ \E written \in 1..(Len(Line(RowOf(id, value))) - 1) :
               append.line = SubSeq(Line(RowOf(id, value)), 1, written)
  BY DEF Made
<1> DEFINE row == RowOf(id, value)
           body == Body(row)
           digits == row[1]
           D == InLine(Chars)
           line == append.line
           bar == <<Bar>>
<1>2. PICK written \in 1..(Len(Line(row)) - 1) : line = SubSeq(Line(row), 1, written)
  BY <1>1
<1>3. /\ Numbered(digits) /\ Spelled(digits) = id /\ id \in 1..MaxId
      /\ body \in Seq(D) /\ Line(row) = body \o <<Newline>>
      /\ \E rest \in Seq(D) : body = digits \o (bar \o rest)
  BY RowBody
<1>4. row \in Seq(Seq(Chars)) /\ row # <<>>
  BY RowOfTyped
<1>5. append.row = row
  BY <1>1
<1>6. Len(Line(row)) = Len(body) + 1 /\ Line(row) \in Seq(Chars)
  BY <1>4, CharsAreCharset, LineShape
<1> HIDE DEF row, digits
<1>7. /\ line \in Seq(D) /\ line # <<>>
      /\ \E rest \in Seq(D) : body = line \o rest
  <2> HIDE DEF line
  <2>1. Len(body) \in Nat /\ written \in 1..Len(body) /\ \A i \in 1..Len(body) : body[i] \in D
    BY <1>3, <1>6, LenProperties, ElementOfSeq
  <2>2. \A i \in 1..Len(body) : Line(row)[i] = body[i]
    <3>1. body \in Seq(Chars) /\ <<Newline>> \in Seq(Chars)
      BY <1>3, CharsAreCharset, BarTyped DEF IsCharset
    <3> DEFINE u == body \o <<Newline>>
    <3>2. \A i \in 1..(Len(body) + Len(<<Newline>>)) : u[i] = IF i <= Len(body) THEN body[i] ELSE <<Newline>>[i - Len(body)]
      BY <3>1, ConcatProperties
    <3>3. Len(<<Newline>>) = 1
      OBVIOUS
    <3> HIDE DEF u, body
    <3>4. \A i \in 1..Len(body) : u[i] = body[i]
      BY <2>1, <3>2, <3>3
    <3> QED BY <1>3, <3>4 DEF u
  <2> HIDE DEF body, D
  <2>3. \A i \in 1..written : Line(row)[i] = body[i] /\ Line(row)[i] \in D
    BY <2>1, <2>2
  <2>4. /\ line \in Seq(D) /\ Len(line) = written
        /\ \A i \in 1..written : line[i] = body[i]
    <3> DEFINE whole == Line(row)
    <3> HIDE DEF whole
    <3>1. \A i \in 1..written : whole[i] \in D
      BY <2>3 DEF whole
    <3>2. /\ SubSeq(whole, 1, written) \in Seq(D)
          /\ Len(SubSeq(whole, 1, written)) = IF 1 <= written THEN written - 1 + 1 ELSE 0
          /\ \A i \in 1..(written - 1 + 1) : SubSeq(whole, 1, written)[i] = whole[1 + i - 1]
      BY <3>1, SubSeqProperties
    <3>3. line = SubSeq(whole, 1, written) /\ written - 1 + 1 = written /\ 1 <= written
      BY <1>2, <2>1 DEF whole
    <3>4. \A i \in 1..written : 1 + i - 1 = i
      OBVIOUS
    <3>5. \A i \in 1..written : whole[i] = body[i]
      BY <2>3 DEF whole
    <3> HIDE DEF whole
    <3>6. \A i \in 1..written : line[i] = whole[i]
      BY <3>2, <3>3, <3>4
    <3> QED BY <3>2, <3>3, <3>5, <3>6
  <2>5. line # <<>>
    BY <2>1, <2>4
  <2> DEFINE rest == SubSeq(body, written + 1, Len(body))
             u == line \o rest
  <2>6. rest \in Seq(D) /\ Len(rest) = Len(body) - written /\ \A i \in 1..(Len(body) - written) : rest[i] = body[written + i]
    <3>1. \A i \in (written + 1)..Len(body) : body[i] \in D
      BY <2>1
    <3>2. /\ rest \in Seq(D)
          /\ Len(rest) = IF written + 1 <= Len(body) THEN Len(body) - (written + 1) + 1 ELSE 0
          /\ \A i \in 1..(Len(body) - (written + 1) + 1) : rest[i] = body[written + 1 + i - 1]
      BY <2>1, <3>1, SubSeqProperties
    <3> HIDE DEF rest
    <3>3. \A i \in 1..(Len(body) - written) : i \in 1..(Len(body) - (written + 1) + 1) /\ written + 1 + i - 1 = written + i
      BY <2>1
    <3>4. Len(rest) = Len(body) - written
      BY <2>1, <3>2
    <3> QED BY <3>2, <3>3, <3>4
  <2> HIDE DEF rest
  <2>7. /\ u \in Seq(D) /\ Len(u) = Len(line) + Len(rest)
        /\ \A i \in 1..(Len(line) + Len(rest)) : u[i] = IF i <= Len(line) THEN line[i] ELSE rest[i - Len(line)]
    BY <2>4, <2>6, ConcatProperties, ZenonT(40)
  <2> HIDE DEF u
  <2>8. ASSUME NEW i \in 1..Len(body) PROVE body[i] = u[i]
    <3>1. i \in 1..(Len(line) + Len(rest))
      BY <2>1, <2>4, <2>6
    <3>2. CASE i <= written
      <4>1. i \in 1..written
        BY <3>2
      <4> QED BY <2>4, <2>7, <3>1, <3>2, <4>1
    <3>3. CASE ~(i <= written)
      <4>1. i - written \in 1..(Len(body) - written) /\ written + (i - written) = i
        BY <2>1, <3>3
      <4> QED BY <2>4, <2>6, <2>7, <3>1, <3>3, <4>1
    <3> QED BY <3>2, <3>3
  <2>9. Len(body) = Len(u)
    BY <2>1, <2>4, <2>6, <2>7
  <2>10. body = u
    BY <1>3, <2>7, <2>8, <2>9, SeqEqual
  <2> QED BY <2>4, <2>5, <2>6, <2>10 DEF u
<1>8. PICK rest \in Seq(D) : body = line \o rest
  BY <1>7
<1>9. PICK behind \in Seq(D) : body = digits \o (bar \o behind)
  BY <1>3
<1>10. ~BadBefore(line)
  <2>1. line \in Seq(Chars) /\ rest \in Seq(Chars)
    BY <1>7, CharsAreCharset, BarTyped
  <2> HIDE DEF line
  <2> QED BY <1>4, <1>8, <2>1, CharsAreCharset, BodyIsGood
<1>11. Stem(append) = line
  BY DEF Stem
<1> DEFINE more == bar \o behind
<1> HIDE DEF body, line
<1>12. digits \in Seq(Digit) /\ digits \in Seq(D) /\ bar \in Seq(D) /\ more \in Seq(D) /\ Len(bar) = 1
  <2>1. digits \in Seq(Digit) /\ digits \in Seq(D)
    BY <1>3, DigitChars, SeqMonotonic DEF Numbered
  <2>2. bar \in Seq(D) /\ Len(bar) = 1
    BY CharsAreCharset, BarTyped
  <2> HIDE DEF bar, D
  <2>3. more \in Seq(D)
    BY <2>2, ConcatProperties
  <2> QED BY <2>1, <2>2, <2>3
<1> HIDE DEF more, bar
<1>13. Len(line) \in Nat \ {0} /\ Len(digits) \in Nat /\ line \o rest = digits \o more
  BY <1>7, <1>8, <1>9, <1>12, LenProperties, EmptySeq DEF more
<1>14. CASE Len(line) <= Len(digits)
  <2> HIDE DEF D
  <2>0. line \in Seq(D) /\ rest \in Seq(D) /\ digits \in Seq(D) /\ more \in Seq(D)
    BY <1>7, <1>8, <1>12
  <2>1. PICK m \in Seq(D) : digits = line \o m /\ rest = m \o more /\ Len(digits) = Len(line) + Len(m)
    <3>1. Splits(D, line, rest, digits, more)
      BY <2>0, <1>13, <1>14, ConcatSplits
    <3> QED BY <3>1 DEF Splits
  <2>2. line \in Seq(Digit) /\ m \in Seq(Digit)
    <3>1. line \o m \in Seq(Digit)
      BY <1>12, <2>1
    <3> QED BY <1>7, <3>1, ConcatParts
  <2>3. line[1] = digits[1]
    <3>1. 1 \in 1..(Len(line) + Len(m)) /\ 1 <= Len(line)
      <4>1. Len(m) \in Nat
        BY LenProperties
      <4> QED BY <1>13, <4>1
    <3>2. (line \o m)[1] = line[1]
      BY <1>7, <3>1, ConcatProperties
    <3> QED BY <2>1, <3>2
  <2>4. Numbered(line)
    BY <1>3, <1>7, <2>2, <2>3 DEF Numbered
  <2>5. Spelled(line) <= id /\ Spelled(line) \in Nat \ {0}
    BY <1>3, <2>1, <2>2, <2>4, SpelledPart, ParseIdIs
  <2>6. Spelled(line) \in 1..MaxId
    BY <1>3, <2>5, MaxIdAssumption
  <2>7. PieceOf(append) = [id |-> Spelled(line), cut |-> "id"]
    BY <1>5, <1>14 DEF PieceOf, line, digits
  <2>8. ~Pending(line)
    <3>1. line[Len(line)] \in Digit
      BY <1>13, <2>2, ElementOfSeq
    <3>2. line[Len(line)] # Backslash
      BY <3>1, DigitChars
    <3> QED BY <3>2 DEF Pending, Escapes
  <2>9. HasPiece(line, Spelled(line), "id")
    BY <1>7, <1>10, <2>4, <2>6, <2>8 DEF HasPiece, D
  <2>10. PieceOf(append).id = Spelled(line) /\ PieceOf(append).cut = "id"
    BY <2>7
  <2> QED BY <1>11, <2>9, <2>10 DEF StemIs
<1>15. CASE ~(Len(line) <= Len(digits))
  <2> HIDE DEF D
  <2>1. Len(digits) <= Len(line)
    BY <1>13, <1>15
  <2>0. /\ line \in Seq(D) /\ rest \in Seq(D) /\ digits \in Seq(D) /\ more \in Seq(D)
        /\ digits \o more = line \o rest
    BY <1>7, <1>8, <1>12, <1>13
  <2>2. PICK m \in Seq(D) : line = digits \o m /\ more = m \o rest /\ Len(line) = Len(digits) + Len(m)
    <3>1. Splits(D, digits, more, line, rest)
      BY <2>0, <2>1, ConcatSplits
    <3> QED BY <3>1 DEF Splits
  <2>3. Len(bar) <= Len(m)
    <3>1. Len(m) \in Nat
      BY LenProperties
    <3> QED BY <1>12, <1>13, <1>15, <2>2, <3>1
  <2>4. bar \o behind = m \o rest
    BY <2>2 DEF more
  <2>40. bar \in Seq(D) /\ behind \in Seq(D) /\ m \in Seq(D) /\ rest \in Seq(D)
    BY <1>8, <1>9, <1>12
  <2>5. PICK r \in Seq(D) : m = bar \o r /\ behind = r \o rest /\ Len(m) = Len(bar) + Len(r)
    <3>1. Splits(D, bar, behind, m, rest)
      BY <2>3, <2>4, <2>40, ConcatSplits
    <3> QED BY <3>1 DEF Splits
  <2>6. line = digits \o (bar \o r)
    BY <2>2, <2>5
  <2>7. PieceOf(append) = [id |-> id, cut |-> IF Escapes(line, Len(line)) THEN "escape" ELSE "line"]
    BY <1>3, <1>5, <1>13, <1>15 DEF PieceOf, line, digits
  <2>8. Pending(line) <=> Escapes(line, Len(line))
    BY <1>13 DEF Pending
  <2> DEFINE how == IF Escapes(line, Len(line)) THEN "escape" ELSE "line"
  <2>9. StartsWithId(line, id)
    BY <1>3, <2>5, <2>6 DEF StartsWithId, D, bar
  <2>10. HasPiece(line, id, how)
    BY <1>3, <1>7, <1>10, <2>8, <2>9 DEF HasPiece, D
  <2>11. PieceOf(append).id = id /\ PieceOf(append).cut = how
    BY <2>7
  <2> QED BY <1>11, <2>10, <2>11 DEF StemIs
<1> QED BY <1>14, <1>15

\* Where the stem of an append stands, and what is behind it.
LEMMA StemAtPlace ==
  ASSUME FileInv, AllMade, NEW i \in DOMAIN appended
  PROVE  LET append == appended[i]
             stem == Stem(append)
         IN /\ StemIs(append) /\ append.offset \in Nat \ {0} /\ append.cut \in BOOLEAN
            /\ Holds(file, append.offset, stem)
            /\ ~append.cut \/ i = Len(appended) => Runs(file, append.offset, stem)
            /\ append.cut /\ i # Len(appended) =>
                  i + 1 \in DOMAIN appended /\ appended[i + 1].offset = append.offset + Len(stem)
<1> DEFINE append == appended[i]
           offset == append.offset
           stem == Stem(append)
<1>1. /\ append \in Appends /\ DOMAIN appended = 1..Len(appended) /\ Len(appended) \in Nat /\ Len(file) \in Nat
  BY ElementOfSeq, LenProperties DEF FileInv, FileTyped
<1>2. Made(append) /\ append.cut \in BOOLEAN /\ offset \in Nat \ {0}
  BY <1>1 DEF AllMade, Appends
<1> HIDE DEF append
<1>3. StemIs(append)
  BY <1>1, <1>2, StemOfWhole, StemOfPart
<1>4. stem \in Seq(InLine(Chars)) /\ stem \in Seq(Chars) /\ Len(stem) \in Nat
  BY <1>3, CharsAreCharset, BarTyped, LenProperties DEF StemIs, HasPiece
<1>5. Holds(file, offset, append.line) /\ Len(append.line) \in Nat
  BY <1>1, LenProperties DEF append, FileInv, FileHolds, Appends
<1>6. i # Len(appended) => i + 1 \in DOMAIN appended /\ appended[i + 1].offset = After(append)
  <2>1. ASSUME i # Len(appended) PROVE i + 1 \in DOMAIN appended /\ i + 1 # 1 /\ (i + 1) - 1 = i
    BY <1>1, <2>1
  <2> QED BY <2>1 DEF append, FileInv, EndToEnd
<1>7. i = Len(appended) => Len(file) + 1 = After(append)
  <2>1. appended # <<>>
    BY <1>1
  <2> QED BY <2>1 DEF append, FileInv, EndToEnd, EndOfFile
<1>8. CASE append.cut
  <2>1. stem = append.line
    BY <1>8 DEF Stem
  <2>2. After(append) = offset + Len(stem)
    BY <2>1 DEF After
  <2> HIDE DEF stem, offset
  <2>3. i = Len(appended) => Runs(file, offset, stem)
    BY <1>5, <1>7, <2>1, <2>2 DEF Runs
  <2> QED BY <1>2, <1>3, <1>5, <1>6, <1>8, <2>1, <2>2, <2>3 DEF append, stem, offset
<1>9. CASE ~append.cut
  <2>1. append.line = stem \o <<Newline>>
    BY <1>3, <1>9 DEF StemIs
  <2> DEFINE end == <<Newline>>
             line == stem \o end
  <2>2. end \in Seq(Chars) /\ Len(end) = 1 /\ end[1] = Newline
    BY CharsAreCharset DEF IsCharset
  <2> HIDE DEF end, stem, offset
  <2>3. /\ Len(line) = Len(stem) + 1
        /\ \A k \in 1..(Len(stem) + 1) : line[k] = IF k <= Len(stem) THEN stem[k] ELSE end[k - Len(stem)]
    <3>1. /\ Len(line) = Len(stem) + Len(end)
          /\ \A k \in 1..(Len(stem) + Len(end)) : line[k] = IF k <= Len(stem) THEN stem[k] ELSE end[k - Len(stem)]
      BY <1>4, <2>2, ConcatProperties
    <3> QED BY <2>2, <3>1
  <2> HIDE DEF line
  <2>4. /\ offset + Len(line) - 1 <= Len(file)
        /\ \A k \in 1..Len(line) : file[offset + k - 1] = line[k]
    BY <1>5, <2>1 DEF Holds, line, end
  <2>5. Holds(file, offset, stem)
    <3>1. \A k \in 1..Len(stem) : k \in 1..(Len(stem) + 1) /\ k <= Len(stem)
      BY <1>4
    <3>2. \A k \in 1..Len(stem) : file[offset + k - 1] = stem[k]
      BY <2>3, <2>4, <3>1
    <3>3. offset + Len(stem) - 1 <= Len(file)
      BY <1>1, <1>2, <1>4, <2>3, <2>4 DEF offset
    <3> QED BY <3>2, <3>3 DEF Holds
  <2>6. file[offset + Len(stem)] = Newline
    <3>1. /\ Len(stem) + 1 \in 1..(Len(stem) + 1) /\ ~(Len(stem) + 1 <= Len(stem))
          /\ (Len(stem) + 1) - Len(stem) = 1
      BY <1>4
    <3>2. line[Len(stem) + 1] = Newline
      BY <2>2, <2>3, <3>1
    <3>3. offset + (Len(stem) + 1) - 1 = offset + Len(stem)
      BY <1>2, <1>4 DEF offset
    <3> QED BY <2>3, <2>4, <3>1, <3>2, <3>3
  <2>7. Runs(file, offset, stem)
    BY <2>5, <2>6 DEF Runs
  <2> QED BY <1>2, <1>3, <1>9, <2>5, <2>7 DEF append, stem, offset
<1> QED BY <1>2, <1>8, <1>9

\* What the pieces say of a line and of the id in it, from one append to the next.
Cut(i) == PieceOf(appended[i]).cut
PieceId(i) == PieceOf(appended[i]).id

\* Pieces and appends have the same places.
LEMMA PiecesAre ==
  ASSUME FileInv
  PROVE  /\ DOMAIN appended = 1..Len(appended) /\ Len(appended) \in Nat
         /\ DOMAIN Pieces = DOMAIN appended /\ Len(Pieces) = Len(appended)
         /\ \A i \in DOMAIN appended : Pieces[i].cut = Cut(i) /\ Pieces[i].id = PieceId(i)
<1>1. appended \in Seq(Appends) /\ DOMAIN appended = 1..Len(appended) /\ Len(appended) \in Nat
  BY LenProperties DEF FileInv, FileTyped
<1>2. \A i \in DOMAIN appended : Pieces[i] = PieceOf(appended[i])
  BY DEF Pieces
<1>3. DOMAIN Pieces = DOMAIN appended
  BY DEF Pieces
<1> DEFINE A == {PieceOf(appended[i]) : i \in DOMAIN appended}
<1>4. Pieces \in [1..Len(appended) -> A]
  <2>1. Pieces = [i \in 1..Len(appended) |-> PieceOf(appended[i])]
    BY <1>1 DEF Pieces
  <2>2. \A i \in 1..Len(appended) : PieceOf(appended[i]) \in A
    BY <1>1
  <2> HIDE DEF A
  <2> QED BY <2>1, <2>2
<1> HIDE DEF A
<1>5. Len(Pieces) = Len(appended)
  BY <1>1, <1>4, FunctionIsSeq
<1> QED BY <1>1, <1>2, <1>3, <1>5 DEF Cut, PieceId

\* A line is malformed from an append on if the append ends in half an escape, or is torn
\* and the line behind it is malformed.
LEMMA MalformedIs ==
  ASSUME FileInv, NEW i \in DOMAIN appended
  PROVE  Abstract!MalformedAt(i) <=>
            \/ Cut(i) = "escape"
            \/ Cut(i) # "no" /\ i # Len(appended) /\ Abstract!MalformedAt(i + 1)
<1> DEFINE n == Len(appended)
           Spoils(k, j) == Cut(j) = "escape" /\ \A m \in k..j : Cut(m) # "no"
<1>1. n \in Nat /\ i \in 1..n
  BY PiecesAre
<1>2. ASSUME NEW k \in 1..n
      PROVE  Abstract!MalformedAt(k) <=> \E j \in k..n : Spoils(k, j)
  <2>1. \A j \in k..n : j \in DOMAIN appended /\ \A m \in k..j : m \in DOMAIN appended
    BY <1>1, PiecesAre
  <2>2. \A j \in k..n : Spoils(k, j) <=> Pieces[j].cut = "escape" /\ \A m \in k..j : Pieces[m].cut # "no"
    BY <2>1, PiecesAre
  <2> HIDE DEF Spoils
  <2>3. Len(Pieces) = n
    BY PiecesAre
  <2> QED BY <2>2, <2>3 DEF Abstract!MalformedAt
<1> HIDE DEF n
<1>3. Cut(i) = "escape" => \E j \in i..n : Spoils(i, j)
  <2>1. i \in i..n /\ \A m \in i..i : m = i
    BY <1>1
  <2>2. Cut(i) = "escape" => Spoils(i, i)
    BY <2>1
  <2> HIDE DEF Spoils
  <2> QED BY <2>1, <2>2
<1>4. ASSUME NEW j \in i..n, Spoils(i, j), Cut(i) # "escape"
      PROVE  Cut(i) # "no" /\ i # n /\ j \in (i + 1)..n /\ Spoils(i + 1, j)
  <2>1. j # i
    BY <1>4
  <2>2. i \in i..j /\ j \in (i + 1)..n /\ i # n /\ \A m \in (i + 1)..j : m \in i..j
    BY <1>1, <2>1
  <2> QED BY <1>4, <2>2
<1>5. ASSUME NEW j \in (i + 1)..n, Spoils(i + 1, j), Cut(i) # "no"
      PROVE  j \in i..n /\ Spoils(i, j)
  <2>1. j \in i..n /\ \A m \in i..j : m = i \/ m \in (i + 1)..j
    BY <1>1
  <2> QED BY <1>5, <2>1
<1> HIDE DEF Spoils
<1>6. i # n => i + 1 \in 1..n
  BY <1>1
<1> QED BY <1>1, <1>2, <1>3, <1>4, <1>5, <1>6 DEF n

\* An id torn among its digits goes on with the id behind it.
LEMMA IdAtIs ==
  ASSUME FileInv, AllMade
  PROVE  \A i \in DOMAIN appended :
            Abstract!IdAt(i) = IF Cut(i) = "id" /\ i # Len(appended)
                               THEN Abstract!Joined(PieceId(i), Abstract!IdAt(i + 1)) ELSE PieceId(i)
<1> DEFINE n == Len(appended)
           V == Nat
           Id(i, h) == IF Cut(i) = "id" /\ i # n THEN Abstract!Joined(PieceId(i), h[i + 1]) ELSE PieceId(i)
           G == [p \in (1..n) \X [1..n -> V] |-> Id(p[1], p[2])]
           zero == 0
<1>1. n \in Nat /\ DOMAIN appended = 1..n /\ zero \in V
  BY PiecesAre
<1>2. \A i \in 1..n : PieceId(i) \in Nat
  <2>1. \A i \in 1..n : StemIs(appended[i])
    BY <1>1, StemAtPlace
  <2>2. \A i \in 1..n : PieceId(i) \in 1..MaxId
    BY <2>1 DEF StemIs, HasPiece, PieceId
  <2> QED BY <2>2, MaxIdAssumption
<1>3. \A front, back \in Nat : Abstract!Joined(front, back) \in Nat
  <2> TAKE front, back \in Nat
  <2>1. Abstract!Shift(back) \in Nat
    BY ShiftIs
  <2> DEFINE value == front * Abstract!Shift(back) + back
  <2>2. value \in Nat
    BY <2>1
  <2> HIDE DEF value
  <2>3. Abstract!Joined(front, back) = IF back = 0 \/ value > MaxId THEN 0 ELSE value
    BY DEF Abstract!Joined, value
  <2> QED BY <2>2, <2>3
<1>4. \A i \in 1..n : i # n => i + 1 \in 1..n /\ i + 1 \in (i + 1)..n
  <2> HIDE DEF n
  <2> QED BY <1>1
<1>5. FillsDown(G, n, V)
  <2>1. \A i \in 1..n : \A h \in [1..n -> V] : G[<<i, h>>] = Id(i, h)
    OBVIOUS
  <2>2. ASSUME NEW i \in 1..n, NEW h \in [1..n -> V] PROVE Id(i, h) \in V
    <3>1. i # n => h[i + 1] \in Nat
      BY <1>4
    <3> QED BY <1>2, <1>3, <3>1
  <2>3. ASSUME NEW i \in 1..n, NEW h, NEW k, \A j \in (i + 1)..n : h[j] = k[j] PROVE Id(i, h) = Id(i, k)
    <3>1. i # n => h[i + 1] = k[i + 1]
      BY <1>4, <2>3
    <3> QED BY <3>1
  <2> HIDE DEF G, V, Id, n
  <2> QED BY <2>1, <2>2, <2>3 DEF FillsDown
<1>6. PICK g : g \in [1..n -> V] /\ \A i \in 1..n : g[i] = Id(i, g)
  <2> HIDE DEF G, V, n, zero, Id
  <2>1. PICK g : IsFilled(g, G, n, V)
    BY <1>1, <1>5, Downward
  <2>2. \A i \in 1..n : g[i] = G[<<i, g>>] /\ g \in [1..n -> V]
    BY <2>1 DEF IsFilled
  <2>3. \A i \in 1..n : G[<<i, g>>] = Id(i, g)
    BY <2>1 DEF IsFilled, G
  <2> QED BY <2>1, <2>2, <2>3 DEF IsFilled
<1> DEFINE Is(f) == f = [i \in DOMAIN Pieces |->
                           IF Pieces[i].cut = "id" /\ i < Len(Pieces)
                           THEN Abstract!Joined(Pieces[i].id, f[i + 1]) ELSE Pieces[i].id]
           found == CHOOSE f : Is(f)
<1>7. \A f : Is(f) <=> f = [i \in 1..n |-> Id(i, f)]
  <2> TAKE f
  <2>1. \A i \in 1..n : i < n <=> i # n
    <3> HIDE DEF n
    <3> QED BY <1>1
  <2>2. \A i \in 1..n : (IF Pieces[i].cut = "id" /\ i < Len(Pieces)
                          THEN Abstract!Joined(Pieces[i].id, f[i + 1]) ELSE Pieces[i].id) = Id(i, f)
    <3> TAKE i \in 1..n
    <3>1. Pieces[i].cut = Cut(i) /\ Pieces[i].id = PieceId(i) /\ Len(Pieces) = n
      BY <1>1, PiecesAre
    <3> HIDE DEF n
    <3> QED BY <2>1, <3>1
  <2>3. DOMAIN Pieces = 1..n
    BY <1>1, PiecesAre
  <2> HIDE DEF Id, n
  <2> QED BY <2>2, <2>3
<1>8. Is(g)
  <2>1. g = [i \in 1..n |-> Id(i, g)]
    BY <1>6
  <2> HIDE DEF Is, Id, n
  <2> QED BY <1>7, <2>1
<1>9. Is(found)
  <2> HIDE DEF Is
  <2> QED BY <1>8
<1>10. found = [i \in 1..n |-> Id(i, found)]
  <2> HIDE DEF Is, Id, n, found
  <2> QED BY <1>7, <1>9
<1>11. \A i \in 1..n : Abstract!IdAt(i) = IF Pieces[i].cut = "id" THEN found[i] ELSE Pieces[i].id
  BY DEF Abstract!IdAt
<1> HIDE DEF found, Is
<1>12. \A i \in 1..n : found[i] = Id(i, found)
  <2> HIDE DEF Id, n
  <2> QED BY <1>10
<1>13. \A i \in 1..n : Abstract!IdAt(i) = found[i]
  <2> TAKE i \in 1..n
  <2>1. Pieces[i].cut = Cut(i) /\ Pieces[i].id = PieceId(i)
    BY <1>1, PiecesAre
  <2> QED BY <1>11, <1>12, <2>1
<1>14. \A i \in 1..n : Abstract!IdAt(i) = IF Cut(i) = "id" /\ i # n
                        THEN Abstract!Joined(PieceId(i), Abstract!IdAt(i + 1)) ELSE PieceId(i)
  <2> TAKE i \in 1..n
  <2>1. Abstract!IdAt(i) = Id(i, found)
    BY <1>12, <1>13
  <2>2. i # n => Abstract!IdAt(i + 1) = found[i + 1]
    BY <1>4, <1>13
  <2> QED BY <2>1, <2>2
<1> HIDE DEF Id
<1>15. ASSUME NEW i \in DOMAIN appended
       PROVE  Abstract!IdAt(i) = IF Cut(i) = "id" /\ i # Len(appended)
                                 THEN Abstract!Joined(PieceId(i), Abstract!IdAt(i + 1)) ELSE PieceId(i)
  <2>1. i \in 1..n
    BY <1>1
  <2> QED BY <1>14, <2>1
<1> QED BY <1>15

\* The line from append i on reads as the text t, and its first field as the digits word.
ReadsAs(i, t, word) ==
    /\ t \in Seq(InLine(Chars)) /\ Numbered(word) /\ Begins(t, word)
    /\ Runs(file, appended[i].offset, t)
    /\ HasBadEscape(t) <=> Abstract!MalformedAt(i)
    /\ Abstract!IdAt(i) = ParseId(word)

\* Such a line begins with a digit, which nothing escapes.
LEMMA BeginsAtDigit ==
  ASSUME NEW t \in Seq(InLine(Chars)), NEW word, Numbered(word), Begins(t, word)
  PROVE  t # <<>> /\ t[1] \in Digit /\ ~IsEscape(t[1])
<1>1. word \in Seq(Digit) /\ Len(word) \in Nat \ {0} /\ word[1] \in Digit
  <2>1. word \in Seq(Digit) /\ word # <<>>
    BY DEF Numbered
  <2>2. Len(word) \in Nat \ {0}
    BY <2>1, LenProperties, EmptySeq
  <2>3. 1 \in 1..Len(word)
    BY <2>2
  <2> QED BY <2>1, <2>2, <2>3, ElementOfSeq
<1>2. \A c \in Digit : ~IsEscape(c)
  BY DigitChars DEF IsEscape
<1>3. t # <<>> /\ t[1] = word[1]
  <2>1. CASE t = word
    BY <2>1 DEF Numbered
  <2>2. CASE \E rest \in Seq(InLine(Chars)) : t = word \o (<<Bar>> \o rest)
    <3>1. PICK rest \in Seq(InLine(Chars)) : t = word \o (<<Bar>> \o rest)
      BY <2>2
    <3> DEFINE more == <<Bar>> \o rest
               u == word \o more
    <3>2. word \in Seq(InLine(Chars))
      BY <1>1, DigitChars, SeqMonotonic
    <3>3. more \in Seq(InLine(Chars)) /\ Len(more) \in Nat
      <4>1. <<Bar>> \in Seq(InLine(Chars))
        BY CharsAreCharset, BarTyped
      <4>2. more \in Seq(InLine(Chars))
        BY <4>1, ConcatProperties
      <4> HIDE DEF more
      <4> QED BY <4>2, LenProperties
    <3> HIDE DEF more
    <3>4. /\ Len(u) = Len(word) + Len(more)
          /\ \A i \in 1..(Len(word) + Len(more)) : u[i] = IF i <= Len(word) THEN word[i] ELSE more[i - Len(word)]
      BY <3>2, <3>3, ConcatProperties
    <3> HIDE DEF u
    <3>5. 1 \in 1..(Len(word) + Len(more)) /\ 1 <= Len(word) /\ Len(u) # 0
      BY <1>1, <3>3, <3>4
    <3>6. u[1] = word[1]
      BY <3>4, <3>5
    <3>7. u # <<>>
      <4>1. Len(<<>>) = 0
        OBVIOUS
      <4> QED BY <3>5, <4>1
    <3> QED BY <3>1, <3>6, <3>7 DEF u, more
  <2> QED BY <2>1, <2>2 DEF Begins
<1> QED BY <1>1, <1>2, <1>3

\* An append that ends its line, or the file.
LEMMA ReadsAlone ==
  ASSUME FileInv, AllMade, NEW i \in DOMAIN appended, ~appended[i].cut \/ i = Len(appended)
  PROVE  \E t, word : ReadsAs(i, t, word)
<1> DEFINE append == appended[i]
           stem == Stem(append)
           n == Len(appended)
<1>1. StemIs(append) /\ Runs(file, append.offset, stem)
  BY StemAtPlace
<1> HIDE DEF append, stem
<1>2. HasPiece(stem, PieceId(i), Cut(i)) /\ (Cut(i) = "no" <=> ~append.cut)
  BY <1>1 DEF StemIs, PieceId, Cut, append, stem
<1>3. Abstract!IdAt(i) = PieceId(i)
  <2>1. Cut(i) = "id" => i = n
    BY <1>2 DEF append
  <2>2. Abstract!IdAt(i) = IF Cut(i) = "id" /\ i # n
                           THEN Abstract!Joined(PieceId(i), Abstract!IdAt(i + 1)) ELSE PieceId(i)
    BY IdAtIs
  <2> QED BY <2>1, <2>2
<1>4. Abstract!MalformedAt(i) <=> Cut(i) = "escape"
  <2>1. Cut(i) # "no" => i = n
    BY <1>2 DEF append
  <2> QED BY <2>1, MalformedIs
<1>5. HasBadEscape(stem) <=> Cut(i) = "escape"
  <2>1. stem \in Seq(InLine(Chars)) /\ ~BadBefore(stem) /\ (Cut(i) = "escape" <=> Pending(stem))
    BY <1>2 DEF HasPiece
  <2> QED BY <2>1, BadEscapes
<1>6. PICK word : Numbered(word) /\ Spelled(word) = PieceId(i) /\ Begins(stem, word)
  <2>1. CASE Cut(i) = "id"
    BY <1>2, <2>1 DEF HasPiece, Begins
  <2>2. CASE Cut(i) # "id"
    <3>1. StartsWithId(stem, PieceId(i))
      BY <1>2, <2>2 DEF HasPiece
    <3> QED BY <3>1 DEF StartsWithId, Begins
  <2> QED BY <2>1, <2>2
<1>7. ParseId(word) = PieceId(i)
  <2>1. PieceId(i) \in 1..MaxId
    BY <1>2 DEF HasPiece
  <2>2. Spelled(word) <= MaxId
    BY <1>6, <2>1, MaxIdAssumption
  <2> QED BY <1>6, <2>2, ParseIdIs
<1>8. ReadsAs(i, stem, word)
  <2>1. stem \in Seq(InLine(Chars))
    BY <1>2 DEF HasPiece
  <2>2. Runs(file, appended[i].offset, stem)
    BY <1>1 DEF append
  <2> QED BY <1>3, <1>4, <1>5, <1>6, <1>7, <2>1, <2>2 DEF ReadsAs
<1> QED BY <1>8

\* A torn append and the line that goes on behind it.
LEMMA ReadsOn ==
  ASSUME FileInv, AllMade, NEW i \in DOMAIN appended, appended[i].cut, i # Len(appended),
         NEW t, NEW word, ReadsAs(i + 1, t, word)
  PROVE  \E u, v : ReadsAs(i, u, v)
<1> DEFINE append == appended[i]
           stem == Stem(append)
           n == Len(appended)
           D == InLine(Chars)
           both == stem \o t
           id == PieceId(i)
<1>1. /\ StemIs(append) /\ append.offset \in Nat \ {0} /\ Holds(file, append.offset, stem)
      /\ i + 1 \in DOMAIN appended /\ appended[i + 1].offset = append.offset + Len(stem)
  BY StemAtPlace
<1> HIDE DEF append, stem
<1>2. HasPiece(stem, id, Cut(i)) /\ Cut(i) # "no"
  BY <1>1 DEF StemIs, PieceId, Cut, append, stem
<1>3. /\ t \in Seq(D) /\ Numbered(word) /\ Begins(t, word) /\ Runs(file, append.offset + Len(stem), t)
      /\ HasBadEscape(t) <=> Abstract!MalformedAt(i + 1)
      /\ Abstract!IdAt(i + 1) = ParseId(word)
  BY <1>1 DEF ReadsAs
<1>4. /\ stem \in Seq(D) /\ ~BadBefore(stem) /\ (Cut(i) = "escape" <=> Pending(stem)) /\ id \in 1..MaxId
      /\ Cut(i) = "id" => Numbered(stem) /\ Spelled(stem) = id
      /\ Cut(i) # "id" => StartsWithId(stem, id)
  BY <1>2 DEF HasPiece
<1> HIDE DEF id
<1>5. both \in Seq(D) /\ stem \in Seq(Chars) /\ t \in Seq(Chars) /\ file \in Seq(Chars)
  <2> HIDE DEF D
  <2>1. both \in Seq(D)
    BY <1>3, <1>4, ConcatProperties
  <2>2. stem \in Seq(Chars) /\ t \in Seq(Chars)
    BY <1>3, <1>4, CharsAreCharset, BarTyped DEF D
  <2> QED BY <2>1, <2>2 DEF FileInv, FileTyped
<1>6. Runs(file, append.offset, both)
  BY <1>1, <1>3, <1>5, RunsOn
<1>7. HasBadEscape(both) <=> Abstract!MalformedAt(i)
  <2>1. BadTogether(stem, t)
    BY <1>5, BadConcat
  <2>2. t # <<>> /\ ~IsEscape(t[1])
    BY <1>3, BeginsAtDigit
  <2>3. HasBadEscape(both) <=> BadBefore(both) \/ Pending(both)
    BY <1>5, BadEscapes
  <2>4. HasBadEscape(t) <=> BadBefore(t) \/ Pending(t)
    BY <1>3, BadEscapes
  <2> HIDE DEF both
  <2>5. Abstract!MalformedAt(i) <=> Cut(i) = "escape" \/ Abstract!MalformedAt(i + 1)
    BY <1>2, MalformedIs
  <2>6. HasBadEscape(both) <=> Pending(stem) \/ HasBadEscape(t)
    <3>1. CASE Pending(stem)
      <4>1. BadBefore(both)
        BY <2>1, <2>2, <3>1 DEF BadTogether, both
      <4> QED BY <2>3, <3>1, <4>1
    <3>2. CASE ~Pending(stem)
      <4>1. (BadBefore(both) <=> BadBefore(t)) /\ (Pending(both) <=> Pending(t))
        BY <1>4, <2>1, <3>2 DEF BadTogether, both
      <4> QED BY <2>3, <2>4, <3>2, <4>1
    <3> QED BY <3>1, <3>2
  <2> QED BY <1>3, <1>4, <2>5, <2>6
<1>8. Abstract!IdAt(i) = IF Cut(i) = "id" THEN Abstract!Joined(id, ParseId(word)) ELSE id
  <2>1. Abstract!IdAt(i) = IF Cut(i) = "id" /\ i # Len(appended)
                           THEN Abstract!Joined(PieceId(i), Abstract!IdAt(i + 1)) ELSE PieceId(i)
    BY IdAtIs
  <2> QED BY <1>3, <2>1 DEF id
<1>9. CASE Cut(i) = "id"
  <2> DEFINE joined == stem \o word
  <2>1. stem \in Seq(Digit) /\ stem # <<>> /\ stem[1] # "0" /\ Spelled(stem) = id /\ word \in Seq(Digit)
    BY <1>3, <1>4, <1>9 DEF Numbered
  <2>2. /\ joined \in Seq(Digit) /\ Spelled(word) \in Nat \ {0}
        /\ Spelled(joined) = id * Abstract!Shift(Spelled(word)) + Spelled(word)
    BY <1>3, <2>1, SpelledConcat
  <2>3. Numbered(joined)
    <3>1. /\ Len(joined) = Len(stem) + Len(word)
          /\ \A k \in 1..(Len(stem) + Len(word)) : joined[k] = IF k <= Len(stem) THEN stem[k] ELSE word[k - Len(stem)]
      BY <2>1, ConcatProperties
    <3>2. Len(stem) \in Nat \ {0} /\ Len(word) \in Nat
      BY <2>1, LenProperties, EmptySeq
    <3> HIDE DEF joined
    <3>3. 1 \in 1..(Len(stem) + Len(word)) /\ 1 <= Len(stem) /\ Len(joined) # 0
      BY <3>1, <3>2
    <3>4. joined[1] = stem[1]
      BY <3>1, <3>3
    <3>5. joined # <<>>
      <4>1. Len(<<>>) = 0
        OBVIOUS
      <4> QED BY <3>3, <4>1
    <3> QED BY <2>1, <2>2, <3>4, <3>5 DEF Numbered
  <2> HIDE DEF joined
  <2>4. ParseId(joined) = Abstract!IdAt(i)
    <3> DEFINE back == Spelled(word)
               shift == Abstract!Shift(back)
               value == id * shift + back
               parsed == ParseId(word)
    <3>1. shift \in Nat \ {0} /\ back \in Nat \ {0} /\ id \in Nat \ {0}
      <4>1. back \in Nat \ {0} /\ id \in Nat \ {0}
        BY <1>4, <2>2, MaxIdAssumption
      <4> HIDE DEF back
      <4>2. shift \in Nat \ {0}
        BY <4>1, ShiftIs
      <4> QED BY <4>1, <4>2
    <3>2. parsed = IF back <= MaxId THEN back ELSE 0
      BY <1>3, ParseIdIs
    <3>3. ParseId(joined) = IF value <= MaxId THEN value ELSE 0
      BY <2>2, <2>3, ParseIdIs
    <3>4. Abstract!IdAt(i) = Abstract!Joined(id, parsed)
      BY <1>8, <1>9
    <3>5. CASE back <= MaxId
      <4>1. parsed = back
        BY <3>2, <3>5
      <4>2. Abstract!Joined(id, back) = IF back = 0 \/ value > MaxId THEN 0 ELSE value
        BY DEF Abstract!Joined
      <4>3. value \in Nat
        <5> HIDE DEF shift, back
        <5> QED BY <3>1
      <4> HIDE DEF value, back, parsed
      <4>4. (value > MaxId <=> ~(value <= MaxId)) /\ back # 0
        BY <3>1, <4>3, MaxIdAssumption
      <4> QED BY <3>3, <3>4, <4>1, <4>2, <4>4
    <3>6. CASE ~(back <= MaxId)
      <4>1. parsed = 0
        BY <3>2, <3>6
      <4>2. Abstract!Joined(id, 0) = 0
        BY DEF Abstract!Joined
      <4>3. ~(value <= MaxId)
        <5> DEFINE product == id * shift
        <5>1. product \in Nat
          <6> HIDE DEF shift
          <6> QED BY <3>1
        <5> HIDE DEF product, back
        <5>2. ~(product + back <= MaxId)
          BY <3>1, <3>6, <5>1, MaxIdAssumption
        <5> QED BY <5>2 DEF product
      <4> HIDE DEF value, parsed
      <4> QED BY <3>3, <3>4, <4>1, <4>2, <4>3
    <3> QED BY <3>5, <3>6
  <2>5. Begins(both, joined)
    <3>1. CASE t = word
      BY <3>1 DEF Begins, joined
    <3>2. CASE \E rest \in Seq(D) : t = word \o (<<Bar>> \o rest)
      <4>1. PICK rest \in Seq(D) : t = word \o (<<Bar>> \o rest)
        BY <3>2
      <4> DEFINE more == <<Bar>> \o rest
      <4>2. stem \in Seq(D) /\ word \in Seq(D) /\ more \in Seq(D)
        <5>1. <<Bar>> \in Seq(D)
          BY CharsAreCharset, BarTyped
        <5>2. word \in Seq(D)
          BY <2>1, DigitChars, SeqMonotonic
        <5> HIDE DEF D
        <5> QED BY <1>4, <5>1, <5>2, ConcatProperties
      <4> HIDE DEF more, D
      <4>3. Regroups(stem, word, more)
        BY <4>2, Regroup
      <4>4. both = joined \o more
        BY <4>1, <4>3 DEF Regroups, more, joined
      <4> QED BY <4>1, <4>4 DEF Begins, more, D
    <3> QED BY <1>3, <3>1, <3>2 DEF Begins
  <2>6. ReadsAs(i, both, joined)
    BY <1>5, <1>6, <1>7, <2>3, <2>4, <2>5 DEF ReadsAs, append
  <2> QED BY <2>6
<1>10. CASE Cut(i) # "id"
  <2>1. PICK first : /\ Numbered(first) /\ Spelled(first) = id
                     /\ \E rest \in Seq(D) : stem = first \o (<<Bar>> \o rest)
    BY <1>4, <1>10 DEF StartsWithId
  <2>2. PICK rest \in Seq(D) : stem = first \o (<<Bar>> \o rest)
    BY <2>1
  <2>3. ParseId(first) = Abstract!IdAt(i)
    <3>1. Spelled(first) <= MaxId
      BY <1>4, <2>1, MaxIdAssumption
    <3>2. ParseId(first) = id
      BY <2>1, <3>1, ParseIdIs
    <3> QED BY <1>8, <1>10, <3>2
  <2>4. Begins(both, first)
    <3> DEFINE bar == <<Bar>>
               behind == bar \o rest
               more == rest \o t
    <3>1. bar \in Seq(D) /\ first \in Seq(D)
      <4>1. bar \in Seq(D)
        BY CharsAreCharset, BarTyped
      <4>2. first \in Seq(Digit)
        BY <2>1 DEF Numbered
      <4> QED BY <4>1, <4>2, DigitChars, SeqMonotonic
    <3> HIDE DEF D, bar
    <3>2. behind \in Seq(D) /\ more \in Seq(D)
      BY <1>3, <3>1, ConcatProperties
    <3> HIDE DEF behind
    <3>3. Regroups(first, behind, t)
      BY <1>3, <3>1, <3>2, Regroup
    <3>4. Regroups(bar, rest, t)
      BY <1>3, <3>1, Regroup
    <3>5. both = first \o (behind \o t)
      BY <2>2, <3>3 DEF Regroups, behind, bar
    <3>6. behind \o t = bar \o more
      BY <3>4 DEF Regroups, behind
    <3>7. both = first \o (bar \o more)
      BY <3>5, <3>6
    <3> HIDE DEF both, more
    <3> QED BY <3>2, <3>7 DEF Begins, bar, D
  <2>5. ReadsAs(i, both, first)
    BY <1>5, <1>6, <1>7, <2>1, <2>3, <2>4 DEF ReadsAs, append
  <2> QED BY <2>5
<1> QED BY <1>9, <1>10

\* From the last append back to the first.
LEMMA ReadsSome ==
  ASSUME FileInv, AllMade
  PROVE  \A i \in DOMAIN appended : \E t, word : ReadsAs(i, t, word)
<1> DEFINE n == Len(appended)
           R == {i \in 1..n : \E t, word : ReadsAs(i, t, word)}
<1>1. n \in Nat /\ DOMAIN appended = 1..n
  BY PiecesAre
<1>2. ASSUME NEW i \in 1..n, \A j \in (i + 1)..n : j \in R PROVE i \in R
  <2>0. i \in DOMAIN appended
    BY <1>1
  <2>1. CASE ~appended[i].cut \/ i = n
    <3>1. \E t, word : ReadsAs(i, t, word)
      BY <2>0, <2>1, ReadsAlone
    <3> QED BY <3>1
  <2>2. CASE appended[i].cut /\ i # n
    <3>1. i + 1 \in (i + 1)..n
      <4> HIDE DEF n
      <4> QED BY <1>1, <2>2
    <3>2. PICK t, word : ReadsAs(i + 1, t, word)
      BY <1>2, <3>1
    <3>3. \E u, v : ReadsAs(i, u, v)
      BY <2>0, <2>2, <3>2, ReadsOn
    <3> QED BY <3>3
  <2>3. appended[i].cut \in BOOLEAN
    BY <1>1, StemAtPlace
  <2> QED BY <2>1, <2>2, <2>3
<1> HIDE DEF R, n
<1>3. \A i \in 1..n : i \in R
  BY <1>1, <1>2, DownTo
<1> QED BY <1>1, <1>3 DEF R

\* What a reader finds at the offset of an append.
LEMMA ReadAtPlace ==
  ASSUME FileInv, AllMade, NEW i \in DOMAIN appended
  PROVE  LET offset == appended[i].offset
             line == ReadLine(file, offset)
             row == RowAtOffset(file, offset, 2)
         IN /\ HasBadEscape(line) <=> Abstract!MalformedAt(i)
            /\ Abstract!MalformedAt(i) <=> row = MalformedRow
            /\ row # MalformedRow => ParseId(row[1]) = Abstract!IdAt(i)
<1> DEFINE offset == appended[i].offset
           line == ReadLine(file, offset)
           row == RowAtOffset(file, offset, 2)
<1>1. PICK t, word : ReadsAs(i, t, word)
  BY ReadsSome
<1>2. /\ t \in Seq(InLine(Chars)) /\ Numbered(word) /\ Begins(t, word) /\ Runs(file, offset, t)
      /\ HasBadEscape(t) <=> Abstract!MalformedAt(i)
      /\ Abstract!IdAt(i) = ParseId(word)
  BY <1>1 DEF ReadsAs
<1>3. offset \in Nat \ {0} /\ file \in Seq(Chars)
  BY StemAtPlace DEF FileInv, FileTyped
<1>4. offset <= Len(file)
  <2>1. offset + Len(appended[i].line) - 1 <= Len(file) /\ Len(appended[i].line) \in Nat \ {0} /\ Len(file) \in Nat
    BY AppendAtPlace
  <2> QED BY <1>3, <2>1
<1> HIDE DEF offset
<1>5. line = WithoutReturn(t)
  BY <1>2, <1>3, CharsAreCharset, ReadRun
<1> HIDE DEF line
<1>6. word \in Seq(Digit) /\ word # <<>>
  BY <1>2 DEF Numbered
<1>7. line \in Seq(InLine(Chars)) /\ Begins(line, word)
  BY <1>2, <1>5, <1>6, BeginsWithoutReturn
<1>8. HasBadEscape(line) <=> Abstract!MalformedAt(i)
  BY <1>2, <1>5, BadWithoutReturn
<1>9. row = ParseLine(line, 2)
  <2>1. Len(file) \in Nat
    BY <1>3, LenProperties
  <2>2. ~(offset > Len(file))
    BY <1>3, <1>4, <2>1
  <2> QED BY <2>2 DEF RowAtOffset, line
<1>10. row = MalformedRow <=> HasBadEscape(line)
  BY <1>7, <1>9, CharsAreCharset, ParsedIs
<1>11. ~HasBadEscape(line) => row[1] = word
  BY <1>6, <1>7, <1>9, FirstField
<1> HIDE DEF row
<1>12. row # MalformedRow => ParseId(row[1]) = Abstract!IdAt(i)
  BY <1>2, <1>10, <1>11
<1> QED BY <1>8, <1>10, <1>12 DEF line, row, offset

\* EngineReadsTheFile, part by part.
LEMMA FileReadAsPieces ==
  ASSUME FileInv, AllMade
  PROVE  EngineReadsTheFile
<1> DEFINE lines == {i \in DOMAIN appended : StartsLine(i)}
<1>1. Abstract!LineStarts = lines
  <2>1. \A i \in DOMAIN appended : i # 1 => i - 1 \in DOMAIN appended
    BY AppendAtPlace
  <2>2. \A i \in DOMAIN appended : Cut(i) = "no" <=> ~appended[i].cut
    BY StemAtPlace DEF StemIs, Cut
  <2>3. DOMAIN Pieces = DOMAIN appended /\ \A i \in DOMAIN appended : Pieces[i].cut = Cut(i)
    BY PiecesAre
  <2>4. \A i \in DOMAIN appended : (i = 1 \/ Pieces[i - 1].cut = "no") <=> StartsLine(i)
    BY <2>1, <2>2, <2>3 DEF StartsLine
  <2> QED BY <2>3, <2>4 DEF Abstract!LineStarts
<1>2. Abstract!FileReadable <=> Scan(file, 2).ok
  <2> DEFINE o(i) == appended[i].offset
  <2>1. Abstract!FileReadable <=> \A i \in lines : ~Abstract!MalformedAt(i)
    BY <1>1 DEF Abstract!FileReadable
  <2>2. Scan(file, 2).ok <=> \A b \in BadStarts(file) : b < 1
    <3>1. file \in Seq(Chars) /\ 2 \in Nat \ {0}
      BY DEF FileInv, FileTyped
    <3>2. FoundFrom(file, 2, 1, Scan(file, 2))
      BY <3>1, CharsAreCharset, ScanIs
    <3> QED BY <3>2 DEF FoundFrom
  <2>3. Starts(file) = {o(i) : i \in lines}
    BY StartsAre
  <2>4. \A i \in lines : HasBadEscape(ReadLine(file, o(i))) <=> Abstract!MalformedAt(i)
    BY ReadAtPlace
  <2>5. \A i \in lines : o(i) \in Nat \ {0}
    BY StemAtPlace
  <2> HIDE DEF o, lines
  <2>6. BadStarts(file) = {o(i) : i \in {j \in lines : Abstract!MalformedAt(j)}}
    BY <2>3, <2>4 DEF BadStarts
  <2>7. (\A b \in BadStarts(file) : b < 1) <=> \A i \in lines : ~Abstract!MalformedAt(i)
    <3>1. ASSUME NEW i \in lines PROVE ~(o(i) < 1)
      BY <2>5
    <3> QED BY <2>6, <3>1
  <2> QED BY <2>1, <2>2, <2>7
<1>3. \A i \in DOMAIN appended :
         LET row == RowAtOffset(file, appended[i].offset, 2) IN
         /\ Abstract!MalformedAt(i) <=> row = MalformedRow
         /\ row # MalformedRow => ParseId(row[1]) = Abstract!IdAt(i)
  BY ReadAtPlace
<1> QED BY <1>1, <1>2, <1>3 DEF EngineReadsTheFile

\* The lines, their ids and their damage that Engine reads of its pieces are what
\* read_line, split_escaped_row and parse_canonical_positive_uint64 read of the
\* characters, for any rows and any tears of them.
THEOREM EngineReadsItsFile == Spec => []EngineReadsTheFile
BY FileIsAppends, AppendsAreRows, FileReadAsPieces, PTL
=============================================================================
