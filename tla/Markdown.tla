------------------------------ MODULE Markdown ------------------------------
(***************************************************************************)
(* How a report's text becomes what the reader shows                       *)
(* (app/src/lib/markdown.tsx): the lines are cut into blocks, and a quote, *)
(* and what is indented under a list's item, are read again as a text of   *)
(* their own.  A line is known by what its patterns match, its indent and  *)
(* its place in the text; marks inside a line are left out.  A block is    *)
(* given by what it shows, in the order in which `render' goes through the *)
(* blocks.                                                                 *)
(***************************************************************************)
EXTENDS Naturals, Sequences, SequencesExt, FiniteSetsExt

CONSTANTS MaxLines     \* bound: lines of a text
ASSUME MarkdownAssumption == MaxLines \in Nat

VARIABLES document     \* the text, a sequence of lines

mvars == <<document>>

Line(kind, indent, within) == [kind |-> kind, indent |-> indent, within |-> within]

\* The lines tried: "bar" has a | in it, "divider" is |---|; "rule" is ---, which divides too.
LineShapes ==
    {Line(kind, 0, "text") : kind \in {"blank", "text", "heading", "rule", "fence", "bar", "divider", "item", "numbered"}}
      \cup {Line(kind, 2, "text") : kind \in {"text", "item"}}
      \cup {Line("quote", 0, within) : within \in {"text", "item"}}

Placed(shapes) ==
    [i \in DOMAIN shapes |->
        [kind |-> shapes[i].kind, indent |-> shapes[i].indent, within |-> shapes[i].within, place |-> i]]

Kinds == {"blank", "text", "heading", "rule", "fence", "bar", "divider", "item", "numbered", "quote"}
Lines == [kind : Kinds, indent : Nat, within : {"text", "item"}, place : Nat]
Texts == Seq(Lines)

IsBlank(line) == line.kind = "blank"
IsItem(line) == line.kind \in {"item", "numbered"}
HasBar(line) == line.kind \in {"bar", "divider"}
Divides(line) == line.kind \in {"divider", "rule"}

startsTable(lines, i) == HasBar(lines[i]) /\ i < Len(lines) /\ Divides(lines[i + 1])
startsBlock(lines, i) ==
    lines[i].kind \in {"fence", "heading", "rule", "quote", "item", "numbered"} \/ startsTable(lines, i)

\* How many lines come before the first of some, the lines up to one, and those after it.
Until(lines, some) == IF some = {} THEN Len(lines) ELSE Min(some) - 1
First(lines, n) == SubSeq(lines, 1, n)
Beyond(lines, n) == SubSeq(lines, n + 1, Len(lines))

\* Lines on the page, in the element that shows them.
ShownAs(element, lines) == [i \in DOMAIN lines |-> [place |-> lines[i].place, element |-> element]]

Unquoted(lines) == [i \in DOMAIN lines |-> [lines[i] EXCEPT !.kind = lines[i].within, !.indent = 0]]
Shifted(lines) ==
    LET shift == Min({lines[i].indent : i \in DOMAIN lines})
    IN [i \in DOMAIN lines |-> [lines[i] EXCEPT !.indent = lines[i].indent - shift]]

\* What the items of a list have in common: the list that `read' is in, or none.
Mark(line) == [kind |-> line.kind, indent |-> line.indent]
NoMark == [kind |-> "none", indent |-> 0]
Marks == [kind : {"none", "item", "numbered"}, indent : Nat]

\* Lines indented under an item: blocks of their own if they begin with an item, else they
\* go on with its text.
nestedFirst(read, lines) ==     \* mutant: of a text that goes on only the first line
    IF IsItem(lines[1]) THEN read[<<NoMark, Shifted(lines)>>] ELSE ShownAs("item", First(lines, 1))
nested(read, lines) ==
    IF IsItem(lines[1]) THEN read[<<NoMark, Shifted(lines)>>] ELSE ShownAs("item", lines)

\* The lines under an item, and the blank ones before the next.
under(mark, lines) == Until(lines, {i \in DOMAIN lines : IsBlank(lines[i]) \/ lines[i].indent <= mark.indent})
blanks(lines) == Until(lines, {i \in DOMAIN lines : ~IsBlank(lines[i])})

\* The next of a list: an item, the lines under one (there is one such group at most, so they
\* are the last the item shows), or blank lines before an item.  Else the list is over.
list(read, mark, lines) ==
    LET Same(line) == Mark(line) = mark
        belongs == under(mark, lines)
        empty == blanks(lines)
    IN CASE Same(lines[1]) -> ShownAs("item", First(lines, 1)) \o read[<<mark, Beyond(lines, 1)>>]
         [] ~Same(lines[1]) /\ belongs > 0 -> nested(read, First(lines, belongs)) \o read[<<mark, Beyond(lines, belongs)>>]
         [] empty > 0 /\ empty < Len(lines) /\ Same(lines[empty + 1]) -> read[<<mark, Beyond(lines, empty)>>]
         [] OTHER -> read[<<NoMark, lines>>]

\* Where the block that begins a text ends.  A paragraph takes its first line whatever it is,
\* and goes on up to a blank or another block.
fence(lines) == Until(lines, {i \in 2..Len(lines) : lines[i].kind = "fence"})
quote(lines) == Until(lines, {i \in DOMAIN lines : lines[i].kind # "quote"})
table(lines) == Until(lines, {i \in 3..Len(lines) : ~HasBar(lines[i])})
paragraph(lines) == Until(lines, {i \in 2..Len(lines) : IsBlank(lines[i]) \/ startsBlock(lines, i)})

\* The next block of a text.
parse(read, lines) ==
    LET line == lines[1]
        From(n) == read[<<NoMark, Beyond(lines, n)>>]
    IN CASE line.kind = "blank" -> From(1)
         [] line.kind = "fence" -> ShownAs("code", SubSeq(lines, 2, fence(lines))) \o From(fence(lines) + 1)
         [] line.kind = "heading" -> ShownAs("heading", <<line>>) \o From(1)
         [] line.kind = "rule" -> From(1)
         [] line.kind = "quote" -> read[<<NoMark, Unquoted(First(lines, quote(lines)))>>] \o From(quote(lines))
         [] startsTable(lines, 1) -> ShownAs("table", <<line>> \o SubSeq(lines, 3, table(lines))) \o From(table(lines))
         [] IsItem(line) -> read[<<Mark(line), lines>>]
         [] OTHER -> ShownAs("paragraph", First(lines, paragraph(lines))) \o From(paragraph(lines))

\* The page, from its top.
page[reading \in Marks \X Texts] ==
    LET mark == reading[1]
        lines == reading[2]
    IN CASE lines = <<>> -> <<>>
         [] lines # <<>> /\ mark # NoMark -> list(page, mark, lines)
         [] OTHER -> parse(page, lines)

---------------------------------------------------------------------------
MarkdownInit == document \in {Placed(shapes) : shapes \in BoundedSeq(LineShapes, MaxLines)}
MarkdownNext == UNCHANGED mvars
MarkdownSpec == MarkdownInit /\ [][MarkdownNext]_mvars

\* What is not shown is a fence, a rule, a table's divider, or blank.
Worded == {"text", "heading", "bar", "item", "numbered", "quote"}

\* Every line that has text is shown, once, and in the text's order, whatever stands around it.
NoLineLost ==
    LET top == page[<<NoMark, document>>]
        shown == {top[i].place : i \in DOMAIN top}
    IN /\ \A i \in 1..(Len(top) - 1) : top[i].place < top[i + 1].place
       /\ \A i \in DOMAIN document : document[i].kind \in Worded => i \in shown
=============================================================================
