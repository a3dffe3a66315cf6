------------------------------- MODULE SourceMap -------------------------------
(***************************************************************************)
(* sourcemapbuffer/default_source_map_buffer.go and sourcemap/: the        *)
(* entries kept while CSS is written, and the mappings they are coded as.  *)
(*                                                                         *)
(* A source is a file's number, a line and a column.  A digit of a VLQ has *)
(* Shift payload bits (5 in the code).                                     *)
(***************************************************************************)
EXTENDS Integers, Sequences, SequencesExt

CONSTANT Shift

ASSUME ShiftPositive == Shift \in Nat \ {0}

NewBuffer == [line |-> 0, col |-> 0, inSpan |-> FALSE, entries |-> <<>>]
Entry(line, col, source) == [line |-> line, col |-> col, source |-> source]

\* ForSpan before its callback
OpenSpan(b, source) ==
    LET last == Last(b.entries)
        skip == /\ b.entries # <<>> /\ last.line = b.line
                /\ last.source.line = source.line \/ last.col = b.col
    IN  [b EXCEPT !.inSpan = TRUE,
                  !.entries = IF skip THEN @ ELSE Append(@, Entry(b.line, b.col, source))]

\* ForSpan after it
CloseSpan(b, wasInSpan) == [b EXCEPT !.inSpan = wasInSpan]

WriteRune(b) == [b EXCEPT !.col = @ + 1]

(* Mutant: a line that starts inside a span gets no entry. *)
writeLineUnmapped(b) ==
    LET useless == b.entries # <<>> /\ Last(b.entries).line = b.line /\ Last(b.entries).col = b.col
    IN  [b EXCEPT !.line = @ + 1, !.col = 0,
                  !.entries = IF useless THEN Front(@) ELSE @]

\* an entry at the newline itself is dropped; inside a span the next line starts as the last entry left
writeLine(b) ==
    LET useless == b.entries # <<>> /\ Last(b.entries).line = b.line /\ Last(b.entries).col = b.col
        kept    == IF useless THEN Front(b.entries) ELSE b.entries
        again   == IF b.inSpan /\ kept # <<>>
                   THEN <<Entry(b.line + 1, 0, Last(kept).source)>> ELSE <<>>
    IN  [b EXCEPT !.line = @ + 1, !.col = 0, !.entries = kept \o again]

-----------------------------------------------------------------------------
\* the sign is the lowest bit; a digit of 2^Shift and more has another after it
encodeVLQ(value) ==
    LET folded == IF value < 0 THEN 2 * (-value) + 1 ELSE 2 * value
        n      == CHOOSE k \in 1..(folded + 1) :
                    2^(Shift * k) > folded /\ \A j \in 1..(k - 1) : 2^(Shift * j) <= folded
    IN  [k \in 1..n |-> ((folded \div 2^(Shift * (k - 1))) % 2^Shift)
                            + (IF k < n THEN 2^Shift ELSE 0)]

\* the value at pos, and the position after it
decodeVLQ(s, pos) ==
    LET end == CHOOSE e \in pos..Len(s) : s[e] < 2^Shift /\ \A i \in pos..(e - 1) : s[i] >= 2^Shift
        sum == FoldLeft(LAMBDA acc, i : acc + (s[i] % 2^Shift) * 2^(Shift * (i - pos)),
                        0, [i \in 1..(end - pos + 1) |-> pos + i - 1])
    IN  [value |-> IF sum % 2 = 1 THEN -(sum \div 2) ELSE sum \div 2, next |-> end + 1]

\* the entries moved by what is written in front of them
WithPrefix(entries, lines, cols) ==
    [i \in DOMAIN entries |->
        [entries[i] EXCEPT !.line = @ + lines,
                           !.col = IF entries[i].line = 0 THEN @ + cols ELSE @]]

Fields(e) == <<e.col, e.source.file, e.source.line, e.source.col>>

\* a segment: four numbers relative to the entry before; the column starts anew on each line
Segment(prev, e) ==
    FlattenSeq([f \in 1..4 |->
        encodeVLQ(Fields(e)[f] - (IF f = 1 /\ prev.line # e.line THEN 0 ELSE Fields(prev)[f]))])

\* the segments of each line
encodeEntries(sorted) ==
    LET Zero == Entry(0, 0, [file |-> 0, line |-> 0, col |-> 0])
        Seg(i) == Segment(IF i = 1 THEN Zero ELSE sorted[i - 1], sorted[i])
        OnLine(l) == SelectSeq([i \in DOMAIN sorted |-> i], LAMBDA i : sorted[i].line = l)
    IN  IF sorted = <<>> THEN <<>>
        ELSE [l \in 1..Last(sorted).line + 1 |->
                [k \in DOMAIN OnLine(l - 1) |-> Seg(OnLine(l - 1)[k])]]
=============================================================================
