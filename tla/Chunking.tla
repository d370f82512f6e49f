------------------------------ MODULE Chunking ------------------------------
(***************************************************************************)
(* A task's document from the file it is read from to the files it is      *)
(* exported to: how its cues are cut into blocks (chunkCues of             *)
(* src/web/src/chunking.ts), what becomes of the cut while the task is     *)
(* translated, split and given other settings (updateJobSettings of        *)
(* src/web/src/types.ts), and what an export is worth (Subtitle).          *)
(*                                                                         *)
(* Positions are as in the code: block [start, end) holds the cues         *)
(* start + 1 .. end of a sequence that is indexed from 1.  Of what a line  *)
(* says a word keeps its length and the languages in whose rules it ends a *)
(* sentence (sentenceBoundaries decides that for the whole text, with ICU  *)
(* where the language is known).  Scores are compared exactly, where the   *)
(* code compares floating-point quotients.                                 *)
(***************************************************************************)
EXTENDS Subtitle

CONSTANTS
    Language,     \* source languages
    Files,        \* files offered for upload
    Settings,     \* the settings that the cut depends on
    Translations  \* translations of whole documents: sequences of texts

\* What a line of words says.
Word == [length : Nat \ {0}, ends : SUBSET Language]
\* validateSettings
Valid(s) == /\ s.target \in Nat \ {0} /\ s.maxSize \in Nat \ {0}
            /\ s.maxCharacters \in Nat \ {0}
            /\ s.target <= s.maxSize
            /\ s.language \in Language

ASSUME ChunkingAssumption ==
    /\ \A file \in Files : file.format \in Format /\ file.lines \in Seq(Lines(Word))
    /\ \A s \in Settings : Valid(s)
    /\ \A ts \in Translations : ts \in Seq(Seq(Lines(Word)))

VARIABLES
    document,       \* job.document
    cues,           \* what chunkCues reads of its cues
    settings,       \* job.settings
    chunks,         \* job.chunks
    completedChunks \* job.completedChunks

vars == <<document, cues, settings, chunks, completedChunks>>

\* What the cut goes by, of each cue, and a block.
Measure == [length : Nat, pause : Int, ends : SUBSET Language]
Block == [start : Nat, end : Nat]

\* The document has a cue, and its cues have been measured.
Measurable == cues \in Seq(Measure) /\ cues # <<>>

TypeOK ==
    /\ Measurable
    /\ settings \in Settings
    /\ chunks \in Seq(Block)
    /\ completedChunks \in 0 .. Len(chunks)

-----------------------------------------------------------------------------
(* What the cut goes by: characters with the breaks between lines, the     *)
(* pause before the next cue, the sentences that end with the cue.         *)

LineLength(line) == IF line.kind = "words" THEN line.word.length ELSE 1

TextLength(text) ==
    LET sum[i \in 0 .. Len(text)] ==
            IF i = 0 THEN -1 ELSE sum[i - 1] + LineLength(text[i]) + 1
    IN  sum[Len(text)]

Measured(doc) ==
    [i \in DOMAIN doc.cues |->
        LET cue == doc.cues[i]
        IN  [length |-> TextLength(cue.text),
             pause |-> IF i = Len(doc.cues) THEN 0 ELSE doc.cues[i + 1].start - cue.end,
             ends |-> IF Last(cue.text).kind = "words" THEN Last(cue.text).word.ends ELSE {}]]

-----------------------------------------------------------------------------
(* chunkCues.                                                              *)

\* The characters of the cues from, from + 1, ..., to of c.
Characters(c, from, to) ==
    LET sum[i \in from - 1 .. to] == IF i < from THEN 0 ELSE sum[i - 1] + c[i].length
    IN  sum[to]

\* The farthest a block that begins at start may end: as many cues as both
\* limits allow, and one at least.
Fits(c, s, start, end) ==
    /\ end <= Len(c) /\ end - start <= s.maxSize
    /\ end = start + 1 \/ Characters(c, start + 1, end) <= s.maxCharacters
HardEnd(c, s, start) ==
    CHOOSE e \in start + 1 .. Len(c) : Fits(c, s, start, e) /\ ~Fits(c, s, start, e + 1)

\* How good a place the end of cue i is: the end of a sentence, a pause.
Quality(c, s, i) ==
    (IF s.language \in c[i].ends THEN 3 ELSE 0)
      + (IF i = Len(c) THEN 0
         ELSE IF c[i].pause >= 3000 THEN 4 ELSE IF c[i].pause >= 1500 THEN 2 ELSE 0)

\* Three quarters of the target, rounded up.
Minimum(s) == (3 * s.target + 3) \div 4

\* Fault: a block may end anywhere.
PlacesAll(c, s, start) == start + Minimum(s) .. HardEnd(c, s, start)

\* Where the block may end other than at its limit.
Places(c, s, start) ==
    {i \in start + Minimum(s) .. HardEnd(c, s, start) : Quality(c, s, i) > 0 \/ i = Len(c)}

Distance(a, b) == IF a >= b THEN a - b ELSE b - a

\* The score, times target and minimum: far from the target is bad, and so is a
\* rest too short for a block.
Score(c, s, start, i) ==
    LET rest == Len(c) - i
    IN  (Quality(c, s, i) + (IF rest = 0 THEN 1 ELSE 0)) * s.target * Minimum(s)
          - 3 * Distance(i - start, s.target) * Minimum(s)
          - (IF rest \in 1 .. Minimum(s) - 1 THEN 2 * (Minimum(s) - rest) * s.target ELSE 0)

\* The first of the best places.
Best(c, s, start) ==
    CHOOSE i \in Places(c, s, start) :
        \A k \in Places(c, s, start) \ {i} :
            IF k < i THEN Score(c, s, start, k) < Score(c, s, start, i)
            ELSE Score(c, s, start, k) <= Score(c, s, start, i)

\* A short rest of the document is one block; without a good place the block
\* ends at its limit.
BlockEnd(c, s, start) ==
    LET hard == HardEnd(c, s, start)
    IN  IF (hard = Len(c) /\ hard - start <= s.target) \/ Places(c, s, start) = {}
        THEN hard
        ELSE Best(c, s, start)

ChunkCues(c, s) ==
    LET from[start \in 0 .. Len(c)] ==
            IF start = Len(c) THEN <<>>
            ELSE LET end == BlockEnd(c, s, start)
                 IN  <<[start |-> start, end |-> end]>> \o from[end]
    IN  from[0]

-----------------------------------------------------------------------------
(* The task.                                                               *)

DoneCount == IF completedChunks = 0 THEN 0 ELSE chunks[completedChunks].end

\* A file is read and a task made of it.
Init ==
    /\ \E file \in Files : Readable(file) /\ document = ParseSubtitle(file)
    /\ cues = Measured(document)
    /\ settings \in Settings
    /\ chunks = ChunkCues(cues, settings)
    /\ completedChunks = 0

\* A block is translated.
Commit ==
    /\ completedChunks < Len(chunks)
    /\ completedChunks' = completedChunks + 1
    /\ UNCHANGED <<document, cues, settings, chunks>>

\* The answer for a block did not match its cues, and it is halved.
Split ==
    /\ completedChunks < Len(chunks)
    /\ LET c == chunks[completedChunks + 1]
           middle == c.start + (c.end - c.start + 1) \div 2
       IN  /\ c.end - c.start > 1
           /\ chunks' = SubSeq(chunks, 1, completedChunks)
                          \o <<[start |-> c.start, end |-> middle],
                               [start |-> middle, end |-> c.end]>>
                          \o SubSeq(chunks, completedChunks + 2, Len(chunks))
    /\ UNCHANGED <<document, cues, settings, completedChunks>>

\* Fault: the limit of characters is not looked at.
RechunksSizes(s) ==
    s.language # settings.language \/ s.target # settings.target \/ s.maxSize # settings.maxSize

Rechunks(s) ==
    \/ s.language # settings.language \/ s.target # settings.target
    \/ s.maxSize # settings.maxSize \/ s.maxCharacters # settings.maxCharacters

\* The cues that are not translated, cut as a document of their own and moved to
\* where they stand.
Rest(s) ==
    LET rest == ChunkCues(SubSeq(cues, DoneCount + 1, Len(cues)), s)
    IN  [i \in 1 .. Len(rest) |-> [start |-> rest[i].start + DoneCount,
                                   end |-> rest[i].end + DoneCount]]

\* A translated task keeps its language; anything else that matters cuts the
\* rest again.
UpdateSettings(s) ==
    /\ completedChunks > 0 => s.language = settings.language
    /\ chunks' = IF Rechunks(s) THEN SubSeq(chunks, 1, completedChunks) \o Rest(s) ELSE chunks
    /\ settings' = s
    /\ UNCHANGED <<document, cues, completedChunks>>

Next == Commit \/ Split \/ \E s \in Settings : UpdateSettings(s)

Spec == Init /\ [][Next]_vars

-----------------------------------------------------------------------------
(* Safety.                                                                 *)

\* Whatever was finished, split and changed before: the blocks hold every cue
\* once and in order, and those still to be sent keep to the limits of the
\* settings as they are now, but for a single cue that is too long by itself.
BlocksFit ==
    /\ chunks[1].start = 0 /\ chunks[Len(chunks)].end = Len(cues)
    /\ \A i \in 1 .. Len(chunks) - 1 : chunks[i].end = chunks[i + 1].start
    /\ \A i \in 1 .. Len(chunks) : chunks[i].start < chunks[i].end
    /\ \A i \in completedChunks + 1 .. Len(chunks) :
          /\ chunks[i].end - chunks[i].start <= settings.maxSize
          /\ \/ chunks[i].end - chunks[i].start = 1
             \/ Characters(cues, chunks[i].start + 1, chunks[i].end) <= settings.maxCharacters

\* No sentence is cut for nothing: a block of the rest that ends neither at the
\* end of a sentence, nor at a pause, nor with the document is as long as the
\* limits allow, and had no such place since three quarters of the target.
CutsAtBreaks ==
    \A b \in {Rest(settings)[i] : i \in 1 .. Len(Rest(settings))} :
        \/ b.end = Len(cues)
        \/ Quality(cues, settings, b.end) > 0
        \/ /\ \/ b.end + 1 - b.start > settings.maxSize
              \/ Characters(cues, b.start + 1, b.end + 1) > settings.maxCharacters
           /\ \A i \in b.start + Minimum(settings) .. b.end : Quality(cues, settings, i) = 0

-----------------------------------------------------------------------------
(* Exports.                                                                *)

\* A task is exported when every cue has a translation.
Exportable(ts) == Len(ts) = Len(cues) /\ \A i \in DOMAIN ts : Translated(ts[i])
Export(ts, format, mode, order) == RenderSubtitle(document, ts, format, mode, order)

\* file is read as the document with the texts ts.
ReadAs(file, ts) ==
    /\ Readable(file)
    /\ LET read == ParseSubtitle(file)
       IN  /\ Aligned(document, read)
           /\ \A i \in DOMAIN ts : read.cues[i].text = ts[i]
           /\ IF file.format = document.format
             THEN /\ read.header = document.header /\ read.metadata = document.metadata
                  /\ \A i \in DOMAIN ts :
                        /\ read.cues[i].identifier = document.cues[i].identifier
                        /\ read.cues[i].settings = document.cues[i].settings
             ELSE /\ read.metadata = <<>>
                  /\ \A i \in DOMAIN ts :
                        /\ read.cues[i].identifier \in {<<>>, <<Number(i)>>}
                        /\ read.cues[i].settings = <<>>

\* A text that begins or ends with U+FEFF, which reading it would take away.
Marked(text) == text[1].margin = "mark" \/ "mark" \in {text[1].kind, text[Len(text)].kind}

\* The exports that are not the document with the texts again: an identifier
\* opens metadata, which only white space around it kept from doing so when it was
\* read; a text is longer than a cue's may be, or loses a U+FEFF at one of its ends;
\* the file is longer than one may be.
Unreadable(file, texts) ==
    \/ /\ file.format = "vtt" /\ document.format = "vtt"
       /\ \E i \in DOMAIN document.cues :
             document.cues[i].identifier # <<>> /\ document.cues[i].identifier[1].kind = "note"
    \/ \E i \in DOMAIN texts : Len(texts[i]) > SourceLimit \/ Marked(texts[i])
    \/ Len(file.lines) > FileLimit

\* An export that can be read again is the same document, whatever lines its texts
\* have: as many cues, at their times, with their texts; and with its identifiers,
\* settings and metadata in the format it came in, with none of them in the other.
\* Merging the original with an exported translation, in either format, gives the
\* bilingual file that exporting gives.
ExportReadsBack ==
    completedChunks = Len(chunks) =>
        \A ts \in Translations, format \in Format, order \in Order :
            Exportable(ts) =>
                LET new == [i \in DOMAIN ts |-> CleanText(ts[i])]
                    alone == Export(ts, format, "translation", order)
                    both == Export(ts, format, "bilingual", order)
                    texts == [i \in DOMAIN ts |->
                                IF order = "translation-first"
                                THEN new[i] \o document.cues[i].text
                                ELSE document.cues[i].text \o new[i]]
                IN  /\ ~Unreadable(alone, new) =>
                          /\ ReadAs(alone, new)
                          /\ \A f \in Format :
                                MergeSubtitles(document, ParseSubtitle(alone), f, order)
                                  = Export(ts, f, "bilingual", order)
                    /\ ~Unreadable(both, texts) => ReadAs(both, texts)

=============================================================================
