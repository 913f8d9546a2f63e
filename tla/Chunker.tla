-------------------------------- MODULE Chunker --------------------------------
(***************************************************************************)
(* app/ingestion/chunker.py: how a document is cut into chunks, at the     *)
(* lines that begin with a section number, or, if no line does, at its     *)
(* blank lines; and the span of characters that each chunk says it is.     *)
(*                                                                         *)
(* A document is a sequence of lines; a line is its kind ("head", "text"   *)
(* or "blank"), its number of characters, and what it says. Characters are *)
(* counted as in the code: from zero, with one for each line's end.        *)
(***************************************************************************)
EXTENDS Naturals, Sequences, FiniteSets, SequencesExt

CONSTANT MinChunk       \* a chunk has more characters than this

ASSUME ChunkerAssumption == MinChunk \in Nat

(* A line that begins with a section number has characters.                *)
Lines ==
    {line \in [kind : {"head", "text", "blank"}, size : Nat, says : STRING] :
        line.kind = "head" => line.size > 0}

(* The characters of lines, with all their ends, or without the last.      *)
Chars(lines) ==
    LET sum[n \in 0..Len(lines)] == IF n = 0 THEN 0 ELSE sum[n - 1] + lines[n].size + 1
    IN  sum[Len(lines)]
Extent(lines) == IF lines = <<>> THEN 0 ELSE Chars(lines) - 1

(* The offset at which line i begins.                                      *)
StartOf(text, i) == Chars(SubSeq(text, 1, i - 1))

Blank(line) == line.kind = "blank"

Least(S) == CHOOSE i \in S : \A k \in S : i <= k
Greatest(S) == CHOOSE i \in S : \A k \in S : k <= i
InOrder(S) ==
    [n \in 1..Cardinality(S) |-> CHOOSE i \in S : Cardinality({k \in S : k < i}) = n - 1]

(* str.strip(): no blank lines at either end.                              *)
Stripped(lines) ==
    LET said == {i \in DOMAIN lines : ~Blank(lines[i])}
    IN  IF said = {} THEN <<>>
        ELSE SubSeq(lines, Least(said), Greatest(said))

Long(chunks) ==
    LET kept == InOrder({n \in DOMAIN chunks : Extent(chunks[n].lines) > MinChunk})
    IN  [n \in DOMAIN kept |-> chunks[kept[n]]]

(* SECTION_PATTERN's matches: the lines that begin with a section number.  *)
Heads(text) == InOrder({i \in DOMAIN text : text[i].kind = "head"})

(* SectionBasedChunker.chunk(), from a head to the next or to the end.     *)
SectionChunks(text) ==
    LET heads == Heads(text)
        Section(n) ==
            LET next == IF n < Len(heads) THEN heads[n + 1] ELSE Len(text) + 1
            IN  [lines |-> Stripped(SubSeq(text, heads[n], next - 1)),
                 start |-> StartOf(text, heads[n]),
                 end |-> IF n < Len(heads) THEN StartOf(text, next) ELSE Extent(text)]
    IN  Long([n \in DOMAIN heads |-> Section(n)])

(* re.split(): the runs of lines that are not blank.                       *)
Paragraphs(text) ==
    LET Breaks(i) == i \notin DOMAIN text \/ Blank(text[i])
        first == InOrder({i \in DOMAIN text : Breaks(i - 1) /\ ~Breaks(i)})
        LastFrom(i) == Least({k \in i..Len(text) : Breaks(k + 1)})
    IN  [n \in DOMAIN first |-> SubSeq(text, first[n], LastFrom(first[n]))]

(* The lines at which para occurs in the text.                             *)
Occurrences(text, para) ==
    {i \in 1..(Len(text) + 1 - Len(para)) : SubSeq(text, i, i + Len(para) - 1) = para}

(* Mutant of Found: the search does not begin at the offset.               *)
FoundFromStart(text, para, offset) == StartOf(text, Least(Occurrences(text, para)))

(* text.find(para, offset)                                                 *)
Found(text, para, offset) ==
    StartOf(text, Least({i \in Occurrences(text, para) : StartOf(text, i) >= offset}))

(* ParagraphChunker.chunk(): each long paragraph is looked for from where  *)
(* the one before it ended.                                                *)
ParagraphChunks(text) ==
    LET Add(chunks, para) ==
            LET start == Found(text, para, IF chunks = <<>> THEN 0 ELSE Last(chunks).end)
            IN  IF Extent(para) <= MinChunk THEN chunks
                ELSE Append(chunks, [lines |-> para, start |-> start,
                                     end |-> start + Extent(para)])
        upto[n \in 0..Len(Paragraphs(text))] ==
            IF n = 0 THEN <<>> ELSE Add(upto[n - 1], Paragraphs(text)[n])
    IN  upto[Len(Paragraphs(text))]

(* get_chunker("section").chunk()                                          *)
ChunksOf(text) == IF Heads(text) = <<>> THEN ParagraphChunks(text) ELSE SectionChunks(text)

--------------------------------------------------------------------------------

(* The lines that lie within a span.                                       *)
InSpan(text, chunk) ==
    {i \in DOMAIN text : /\ StartOf(text, i) >= chunk.start
                         /\ StartOf(text, i) + text[i].size <= chunk.end}

(* Lines i to k are of one section, or of one paragraph.                   *)
OneUnit(text, i, k) ==
    IF Heads(text) = <<>> THEN \A l \in i..k : ~Blank(text[l])
    ELSE /\ \E h \in 1..i : text[h].kind = "head"
         /\ \A l \in (i + 1)..k : text[l].kind # "head"

(* A span cuts the chunk's own text out of the document, spans follow one  *)
(* another without overlap, and what lies in no span is too short for a    *)
(* chunk (or precedes the first section).                                  *)
SpansFit(text, chunks) ==
    LET lines(chunk) == Stripped([n \in 1..Cardinality(InSpan(text, chunk)) |->
                            text[InOrder(InSpan(text, chunk))[n]]])
        covered == UNION {InSpan(text, chunks[n]) : n \in DOMAIN chunks}
    IN  /\ \A n \in DOMAIN chunks :
            /\ lines(chunks[n]) = chunks[n].lines
            /\ n > 1 => chunks[n - 1].end <= chunks[n].start
        /\ \A i, k \in DOMAIN text \ covered :
            i <= k /\ OneUnit(text, i, k) =>
                Extent(Stripped(SubSeq(text, i, k))) <= MinChunk
================================================================================
