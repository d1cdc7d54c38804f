------------------------------- MODULE Landing -------------------------------
(***************************************************************************)
(* Where text lands in the dictation buffer and where its preview is drawn *)
(* (lua/spokenpad.lua), and the same rule for a file no editor has open    *)
(* (`append_paragraph`, shell/nvim/passage.rs).                            *)
(*                                                                         *)
(* A character is a member of Chars, a line a sequence of them, a text or  *)
(* a file a sequence of characters with line ends.  A column counts cells  *)
(* from the start of the line, so that it lies in row column \div width.   *)
(***************************************************************************)
EXTENDS Integers, Sequences, SequencesExt

CONSTANTS
  MaxFile,     \* bound: characters of the file there was
  MaxText,     \* bound: characters of a text
  MaxAppends,  \* bound: texts
  Widths       \* how wide the window may be

LandingAssumption ==
  MaxFile \in Nat /\ MaxText \in Nat /\ MaxAppends \in Nat /\ Widths \subseteq Nat \ {0, 1}

VARIABLES
  buffer,  \* the lines of the file an editor has open
  disk,    \* the same file, where no editor has
  wide,    \* the window's width
  place,   \* history: where the last text was previewed, and where it is
  appends

vars == <<buffer, disk, wide, place, appends>>

Blank == " "
Hyphen == "-"   \* a 'breakat' character that is no blank
Wide == "W"     \* takes two cells
Narrow == "a"
Chars == {Blank, Hyphen, Wide, Narrow}
EndOfLine == "\n"

IsBlank(line) == \A i \in DOMAIN line : line[i] = Blank
EndsBlank(line) == line # <<>> /\ Last(line) = Blank

(* Lines of a text (`literal_lines`, `str::split`): line ends are kept. *)
Lines(text) ==
  FoldLeft(LAMBDA lines, c : IF c = EndOfLine THEN Append(lines, <<>>)
                             ELSE [lines EXCEPT ![Len(lines)] = Append(@, c)],
           << <<>> >>, text)

(* The file Neovim writes of a buffer, and the buffer it reads of a file. *)
FileOf(lines) == FlattenSeq([i \in DOMAIN lines |-> Append(lines[i], EndOfLine)])
Unended(file) == IF file # <<>> /\ Last(file) = EndOfLine THEN Front(file) ELSE file
BufferOf(file) == Lines(Unended(file))

LastTextLine(lines) ==
  LET texts == {i \in DOMAIN lines : ~IsBlank(lines[i])}
  IN  IF texts = {} THEN 0 ELSE CHOOSE i \in texts : \A j \in texts : j <= i

(* `landing`: the line the text goes on, or the line it opens a paragraph
   below.  A buffer without text is replaced whole. *)
Landing(lines, continued) ==
  LET last == LastTextLine(lines)
  IN  IF last = 0 THEN [on |-> 1, below |-> 0, kept |-> <<>>]
      ELSE IF continued THEN [on |-> last, below |-> 0, kept |-> lines[last]]
      ELSE [on |-> 0, below |-> last, kept |-> <<>>]

(* Variant: text is joined with a space, whatever it follows. *)
SeparatorAlways(kept, first) == IF kept = <<>> \/ first = <<>> THEN <<>> ELSE <<Blank>>

Separator(kept, first) ==
  IF kept = <<>> \/ first = <<>> \/ EndsBlank(kept) THEN <<>> ELSE <<Blank>>

(* `transactional_append`: the buffer's lines with the text. *)
AppendToBuffer(lines, text, continued) ==
  LET at == Landing(lines, continued)
      added == Lines(text)
  IN  IF at.below # 0
        THEN SubSeq(lines, 1, at.below) \o << <<>> >> \o added
        ELSE SubSeq(lines, 1, at.on - 1)
             \o <<at.kept \o Separator(at.kept, Head(added)) \o Head(added)>> \o Tail(added)

(* `append_paragraph`: the file with the text. *)
AppendParagraph(file, text, continued) ==
  LET all == IF file = <<>> THEN <<>> ELSE Lines(Unended(file))
      lines == SubSeq(all, 1, LastTextLine(all))
      added == Lines(text)
      space == Head(added) # <<>> /\ ~EndsBlank(Last(lines))
  IN  FileOf(IF lines = <<>> THEN added
             ELSE IF continued
             THEN Front(lines)
                  \o <<Last(lines) \o (IF space THEN <<Blank>> ELSE <<>>) \o Head(added)>>
                  \o Tail(added)
             ELSE lines \o << <<>> >> \o added)

-----------------------------------------------------------------------------
(* The preview. *)

Cells(c) == IF c = Wide THEN 2 ELSE 1
IsBreak(c) == c \in {Blank, Hyphen}
CeilDiv(n, d) == (n + d - 1) \div d

(* The word after the break at `i`, and the breaks after that word: where
   what must fit on the row ends. *)
WordEnd(text, i) ==
  CHOOSE k \in (i + 1)..Len(text) :
    /\ \A j \in (i + 2)..k : IsBreak(text[j]) \/ ~IsBreak(text[j - 1])
    /\ k = Len(text) \/ ~(IsBreak(text[k + 1]) \/ ~IsBreak(text[k]))

Width(text, from, to) ==
  FoldLeft(LAMBDA sum, c : sum + Cells(c), 0, SubSeq(text, from, to))

(* `lay_out`: each character's column and the cells added after it, the
   column after the text, and whether only breaks came so far. *)
LayOut(text, column, width, leading) ==
  FoldLeft(
    LAMBDA done, i :
      LET c == text[i]
          split == Cells(c) = 2 /\ done.end % width = width - 1
          at == IF split THEN done.end + 1 ELSE done.end
          still == done.leading /\ IsBreak(c)
          rowEnd == (at \div width + 1) * width
          breaks == /\ IsBreak(c) /\ ~still
                    /\ i < Len(text) /\ ~IsBreak(text[i + 1])
                    /\ at + Width(text, i + 1, WordEnd(text, i)) >= rowEnd
          pad == IF breaks THEN rowEnd - at - Cells(c) ELSE 0
      IN  [columns |-> Append(done.columns, at), pads |-> Append(done.pads, pad),
           end |-> at + Cells(c) + pad, leading |-> still],
    [columns |-> <<>>, pads |-> <<>>, end |-> column, leading |-> leading],
    [i \in DOMAIN text |-> i])

(* Virtual text as it is handed to Neovim, the padding written out, and the
   columns Neovim draws it at (external: it wraps per cell). *)
WrittenOut(text, laid) ==
  FlattenSeq([i \in DOMAIN text |-> <<text[i]>> \o [p \in 1..laid.pads[i] |-> Blank]])

VirtualColumns(text, column, width) ==
  FoldLeft(LAMBDA columns, c :
             LET end == Last(columns)
                 at == IF Cells(c) = 2 /\ end % width = width - 1 THEN end + 1 ELSE end
             IN  Front(columns) \o <<at, at + Cells(c)>>,
           <<column>>, text)

(* `preview_layout`: the blanks before the words and the words laid out, in a
   window high enough for all of them. *)
PreviewGap(end, width) ==
  (IF end % width = 0 THEN 0 ELSE width - (end % width)) + width

PreviewLayout(lines, continued, words, width) ==
  LET at == Landing(lines, continued)
      kept == IF at.below # 0 THEN lines[at.below] ELSE at.kept
      text == LayOut(kept, 0, width, TRUE)
      joined == Separator(kept, words) \o words
  IN  IF at.below # 0
        THEN [column |-> text.end,
              drawn |-> [i \in 1..PreviewGap(text.end, width) |-> Blank]
                          \o WrittenOut(words, LayOut(words, 0, width, TRUE))]
        ELSE [column |-> text.end,
              drawn |-> WrittenOut(joined, LayOut(joined, text.end, width, text.leading))]

-----------------------------------------------------------------------------
(* Columns of the characters that are no blanks. *)
Inked(text, columns) ==
  LET inked == SelectSeq([i \in DOMAIN text |-> i], LAMBDA i : text[i] # Blank)
  IN  [k \in DOMAIN inked |-> columns[inked[k]]]

ShownAt(lines, continued, words, width) ==
  LET preview == PreviewLayout(lines, continued, words, width)
  IN  Inked(preview.drawn, VirtualColumns(preview.drawn, preview.column, width))

(* Where the words are once they have landed, counted from the start of the
   last text line's first row.  Neovim draws a line by the rules of `lay_out`
   (external). *)
RowsOf(line, width) ==
  LET rows == CeilDiv(LayOut(line, 0, width, TRUE).end, width)
  IN  IF rows = 0 THEN 1 ELSE rows

LandedAt(lines, continued, words, width) ==
  LET after == AppendToBuffer(lines, words, continued)
      line == Last(after)
      columns == LayOut(line, 0, width, TRUE).columns
      above == IF Landing(lines, continued).below # 0
                 THEN (RowsOf(lines[Landing(lines, continued).below], width) + 1) * width
                 ELSE 0
      mine == Inked(line, [i \in DOMAIN line |-> above + columns[i]])
      count == Len(SelectSeq(words, LAMBDA c : c # Blank))
  IN  SubSeq(mine, Len(mine) - count + 1, Len(mine))

(* The words of a line stay where they are when text follows on it. *)
WordsStay(line, words, width) ==
  LET joined == line \o Separator(line, words) \o words
  IN  SubSeq(LayOut(joined, 0, width, TRUE).columns, 1, Len(line))
        = LayOut(line, 0, width, TRUE).columns

-----------------------------------------------------------------------------
(* A text is previewed, then appended, to the buffer and to the file. *)
Strings(chars, most) == UNION {[1..n -> chars] : n \in 0..most}
Nowhere == [shown |-> <<>>, landed |-> <<>>]

Init ==
  /\ disk \in Strings(Chars \cup {EndOfLine}, MaxFile) /\ buffer = BufferOf(disk)
  /\ wide \in Widths /\ place = Nowhere /\ appends = 0

(* Neovim lays out a line again when text joins it, which may move a word that
   ended it; the preview is drawn behind the words as they stand. *)
Comparable(kept, words, continued) ==
  /\ words # <<>> /\ ~IsBlank(<<Head(words)>>) /\ ~EndsBlank(words) /\ ~Contains(words, EndOfLine)
  /\ continued => /\ kept = <<>> \/ ~IsBreak(Last(kept))
                  /\ WordsStay(kept, words, wide)

AppendText(text, continued) ==
  LET kept == Landing(buffer, continued).kept
  IN  /\ appends < MaxAppends /\ appends' = appends + 1
      /\ buffer' = AppendToBuffer(buffer, text, continued)
      /\ disk' = AppendParagraph(disk, text, continued)
      /\ place' = IF Comparable(kept, text, continued)
                    THEN [shown |-> ShownAt(buffer, continued, text, wide),
                          landed |-> LandedAt(buffer, continued, text, wide)]
                    ELSE Nowhere
      /\ UNCHANGED wide

Next == \E text \in Strings(Chars \cup {EndOfLine}, MaxText), continued \in BOOLEAN :
          AppendText(text, continued)

Spec == Init /\ [][Next]_vars

-----------------------------------------------------------------------------
(* A text stands in a file that no editor has open as it would in the editor's
   buffer (`append_paragraph`, `transactional_append`); and its preview was
   drawn in the cells it came to stand in (`preview_layout`), unless the line
   it follows ends with a break, or its last word moves to make room. *)
LandsAsShown ==
  /\ appends > 0 => disk = FileOf(buffer)
  /\ place.shown = place.landed
=============================================================================
