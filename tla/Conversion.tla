----------------------------- MODULE Conversion -----------------------------
(***************************************************************************)
(* Byte offsets and the positions of the protocol                          *)
(* (sass-parser/src/line_index.rs, sass-lsp/src/convert.rs), and the       *)
(* distance between two positions that semantic tokens are sent as         *)
(* (delta_encode in sass-lsp/src/semantic_tokens.rs).                      *)
(*                                                                         *)
(* Offsets count bytes from 0.  A position is a line and a column, both    *)
(* from 0; columns count UTF-16 units.  Lines end with a line feed.        *)
(***************************************************************************)
EXTENDS Integers, SequencesExt

-----------------------------------------------------------------------------
(* Texts as characters.                                                     *)

Character(bytes, units) == [bytes |-> bytes, units |-> units, newline |-> FALSE]
Ascii == Character(1, 1)
LineFeed == [bytes |-> 1, units |-> 1, newline |-> TRUE]

Characters ==
    {c \in [bytes : 1 .. 4, units : 1 .. 2, newline : BOOLEAN] : c.newline => c = LineFeed}

\* A place between two characters: how many bytes and how many units come before
\* it, and whether a line begins there.
Origin == [byte |-> 0, unit |-> 0, line |-> TRUE]
Past(place, c) ==
    [byte |-> place.byte + c.bytes, unit |-> place.unit + c.units, line |-> c.newline]

\* The place before each character and, last, the end.
PlacesFrom(place, chars) ==
    FoldLeft(LAMBDA s, c : Append(s, Past(Last(s), c)), <<place>>, chars)
PlacesOf(chars) == PlacesFrom(Origin, chars)

-----------------------------------------------------------------------------
(* LineIndex and conversion, in a text with all its places and its end.      *)

\* The offsets at which lines begin.
LineIndex(in) == {p.byte : p \in {p \in in : p.line}}

\* line_col, of which the column is the distance from the line's start.
LineOf(lines, offset) == Cardinality({s \in lines : s <= offset}) - 1

\* line_start
LineBegin(lines, line) == CHOOSE s \in lines : LineOf(lines, s) = line

UnitAt(in, offset) == (CHOOSE p \in in : p.byte = offset).unit

\* Mutant: columns are bytes.
ByteColumn(in, start, offset) == offset - start

Column(in, start, offset) == UnitAt(in, offset) - UnitAt(in, start)

\* byte_to_lsp_pos: an offset beyond the end of the text is that of the end.
ToPosition(in, end, lines, offset) ==
    LET clamped == IF offset <= end THEN offset ELSE end
        line == LineOf(lines, clamped)
    IN  [line |-> line, character |-> Column(in, LineBegin(lines, line), clamped)]

\* lsp_position_to_offset: the first place in the line that is not before the
\* column, or the line's end; <<>> for a line that is not there.
ToOffset(in, end, lines, position) ==
    LET start == LineBegin(lines, position.line)
        target == UnitAt(in, start) + position.character
        stop == IF position.line + 1 < Cardinality(lines)
                  THEN LineBegin(lines, position.line + 1) - 1 ELSE end
        reached == {p.byte : p \in {p \in in :
                       /\ start <= p.byte /\ p.byte <= stop
                       /\ p.unit >= target}}
    IN  IF position.line >= Cardinality(lines) THEN <<>>
        ELSE <<Min(reached \cup {stop})>>

\* delta_encode: differences of unsigned numbers, which must not be negative.
Delta(from, to) ==
    [line |-> to.line - from.line,
     start |-> IF to.line = from.line THEN to.character - from.character
               ELSE to.character]

-----------------------------------------------------------------------------
(* Properties, of a text with all its places and its end.                   *)

\* Every place in the text, sent to the client as a position and sent back, is
\* the same offset, also behind characters that take three bytes and one UTF-16
\* unit, or four bytes and two units.
RoundTrips(in, end) ==
    LET lines == LineIndex(in)
    IN  \A p \in in : ToOffset(in, end, lines, ToPosition(in, end, lines, p.byte)) = <<p.byte>>

\* Whatever position the client sends, of whichever version of the text, the
\* offset is none, or a place between two characters of that line: the text can
\* be cut there.
LandsInLine(in, end, position) ==
    LET lines == LineIndex(in)
        offset == ToOffset(in, end, lines, position)
    IN  offset # <<>> =>
            \E p \in in : offset = <<p.byte>> /\ LineOf(lines, p.byte) = position.line

\* Going forward in the text no difference of positions is negative: what is
\* computed in unsigned numbers does not wrap.
GoesForward(in, end, from, to) ==
    LET at(offset) == ToPosition(in, end, LineIndex(in), offset)
    IN  from <= to => LET d == Delta(at(from), at(to)) IN d.line >= 0 /\ d.start >= 0
=============================================================================
