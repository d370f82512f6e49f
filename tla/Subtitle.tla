------------------------------ MODULE Subtitle ------------------------------
(***************************************************************************)
(* Subtitle files and the documents read from them: src/web/src/subtitle.ts*)
(* with the normal form of a translation (text.ts, validation.ts).         *)
(*                                                                         *)
(* A file is a sequence of lines.  What a line says is left out but for    *)
(* what the code looks for: white space, the heading of a VTT file, the    *)
(* openings of metadata (STYLE, REGION, NOTE), numbers, and timings.  The  *)
(* length of a text or of a file is its number of lines.                   *)
(*                                                                         *)
(* White space is of three kinds.  Tabs and spaces ("blank") separate      *)
(* blocks.  Other white space ("wide") does not.  White space with U+FEFF  *)
(* in it ("mark") is none for trimSpace, which goes by \p{White_Space}, and*)
(* still is for String.trim.  U+0085 is the other way round: at the ends of*)
(* a translated line it is gone before anything is written, elsewhere it is*)
(* part of what the line says.  White space after what a line says is left *)
(* out, but that of a text's end may be a last line of it.                 *)
(***************************************************************************)
EXTENDS Integers, SequencesExt, Lists

CONSTANTS
    LastHour,         \* the last hour a time may have
    SourceLimit,      \* the longest text of a cue
    TranslationLimit, \* the longest translation
    FileLimit,        \* the longest file, 2 MB
    CueLimit          \* the most cues of a file, 20000

ASSUME SubtitleAssumption ==
    /\ LastHour \in Nat /\ SourceLimit \in Nat /\ TranslationLimit \in Nat
    /\ FileLimit \in Nat /\ CueLimit \in Nat

Format == {"srt", "vtt"}
Mode == {"translation", "bilingual"}
Order == {"original-first", "translation-first"}

-----------------------------------------------------------------------------
(* Lines.                                                                  *)

\* The white space before what a line says.
Margin == {"none", "wide", "mark"}

Line(kind, word) == [kind |-> kind, word |-> word, margin |-> "none"]
\* Every line there may be, words being made of the words given.
Lines(words) ==
    LET said == [kind : {"blank", "wide", "mark", "webvtt", "note", "number", "name"},
                 word : Nat, margin : Margin]
        stamp == [hours : Nat, minutes : Nat, seconds : Nat, ms : 0 .. 999,
                  mark : {"comma", "point"}, short : BOOLEAN]
    IN  said
          \cup [kind : {"words"}, word : words, margin : Margin]
          \cup [kind : {"timing"}, start : stamp, end : stamp, settings : Seq(STRING),
                margin : Margin]
Blank == Line("blank", 0)
Wide == Line("wide", 0)
Heading == Line("webvtt", 0)
Number(n) == Line("number", n)

\* Nothing, for String.trim and for trimSpace.
White(line) == line.kind \in {"blank", "wide", "mark"}
Empty(line) == line.kind \in {"blank", "wide"}

Flush(line) == [line EXCEPT !.margin = "none"]
TrimSpace(line) == IF line.margin = "wide" THEN Flush(line) ELSE line

\* String.trim over lines.
Trim(lines) ==
    LET said == {i \in DOMAIN lines : ~White(lines[i])}
        inner == SubSeq(lines, Min(said), Max(said))
    IN  IF said = {} THEN <<>> ELSE <<Flush(inner[1])>> \o Tail(inner)

\* What lies between the runs of blank lines.
Join(blocks, line) ==
    LET n == Len(blocks)
    IN  IF line.kind # "blank" THEN [blocks EXCEPT ![n] = Append(@, line)]
        ELSE IF blocks[n] = <<>> THEN blocks ELSE Append(blocks, <<>>)
Blocks(lines) ==
    LET joined[i \in 0 .. Len(lines)] ==
            IF i = 0 THEN << <<>> >> ELSE Join(joined[i - 1], lines[i])
    IN  joined[Len(lines)]

\* Fault: an empty line is left where it is.
CleanTextLoose(text) == [i \in DOMAIN text |-> TrimSpace(text[i])]

\* Every line is trimmed, none is empty.
CleanText(text) ==
    LET said == Only(text, {line \in ToSet(text) : ~Empty(line)})
    IN  [i \in DOMAIN said |-> TrimSpace(said[i])]

-----------------------------------------------------------------------------
(* Times, in milliseconds.                                                 *)

NoTime == -1
Mark(format) == IF format = "srt" THEN "comma" ELSE "point"

\* short: a stamp without hours, which VTT allows.
Stamp(hours, minutes, seconds, ms, mark, short) ==
    [hours |-> hours, minutes |-> minutes, seconds |-> seconds, ms |-> ms,
     mark |-> mark, short |-> short]

ParseTime(stamp, format) ==
    IF /\ stamp.mark = Mark(format) /\ (stamp.short => format = "vtt")
       /\ stamp.hours <= LastHour /\ stamp.minutes < 60 /\ stamp.seconds < 60
    THEN ((stamp.hours * 60 + stamp.minutes) * 60 + stamp.seconds) * 1000 + stamp.ms
    ELSE NoTime

Timestamp(time, format) ==
    Stamp(time \div 3600000, (time \div 60000) % 60, (time \div 1000) % 60, time % 1000,
          Mark(format), FALSE)

\* A line with an arrow; settings is what follows the end, if anything does.
Timing(start, end, settings) ==
    [kind |-> "timing", start |-> start, end |-> end, settings |-> settings,
     margin |-> "none"]

-----------------------------------------------------------------------------
(* Reading a file, [format, lines].                                        *)

IsMetadata(block) == block[1].kind = "note" /\ block[1].margin = "none"

TimingIndex(block) == IF block[1].kind = "timing" THEN 1 ELSE 2

ParseCue(block, format) ==
    LET at == TimingIndex(block)
    IN  [identifier |-> IF at = 1 THEN <<>> ELSE Trim(<<block[1]>>),
         start |-> ParseTime(block[at].start, format),
         end |-> ParseTime(block[at].end, format),
         settings |-> block[at].settings,
         text |-> Trim(SubSeq(block, at + 1, Len(block)))]

CueValid(block, format) ==
    /\ format = "srt" => block[1].kind = "number"
    /\ Len(block) > TimingIndex(block)
    /\ block[TimingIndex(block)].kind = "timing"
    /\ LET cue == ParseCue(block, format)
       IN  /\ cue.start # NoTime /\ cue.end >= cue.start
           /\ Len(cue.text) \in 1 .. SourceLimit

\* A block that only looks as if it held something.
Void(block) == \A i \in DOMAIN block : White(block[i])

ParseBlock(doc, block) ==
    IF Void(block) THEN doc
    ELSE IF doc.format = "vtt" /\ IsMetadata(block)
    THEN [doc EXCEPT !.metadata = Append(@, [before |-> Len(doc.cues), text |-> block])]
    ELSE [doc EXCEPT !.cues = Append(@, ParseCue(block, doc.format))]

\* The blocks after the heading.
Body(file) ==
    LET blocks == Blocks(Trim(file.lines))
    IN  IF file.format = "vtt" THEN Tail(blocks) ELSE blocks

ParseSubtitle(file) ==
    LET header == IF file.format = "vtt" THEN Head(Blocks(Trim(file.lines))) ELSE <<>>
        body == Body(file)
        read[i \in 0 .. Len(body)] ==
            IF i = 0
            THEN [format |-> file.format, header |-> header, metadata |-> <<>>, cues |-> <<>>]
            ELSE ParseBlock(read[i - 1], body[i])
    IN  read[Len(body)]

\* Files that are not refused.
Readable(file) ==
    /\ Len(file.lines) <= FileLimit
    /\ Trim(file.lines) # <<>>
    /\ file.format = "vtt" => Trim(file.lines)[1].kind = "webvtt"
    /\ \A block \in ToSet(Body(file)) :
          \/ Void(block)
          \/ file.format = "vtt" /\ IsMetadata(block)
          \/ CueValid(block, file.format)
    /\ Len(ParseSubtitle(file).cues) \in 1 .. CueLimit

-----------------------------------------------------------------------------
(* Writing a file.                                                         *)

\* normalizeTranslation refuses everything else.
Translated(text) ==
    Trim(CleanText(text)) # <<>> /\ Len(CleanText(text)) <= TranslationLimit

\* Identifiers, settings and metadata go into a file of the document's own format.
RenderCue(doc, i, translation, format, mode, order) ==
    LET cue == doc.cues[i]
        new == CleanText(translation)
        name == IF format = "srt"
                THEN IF doc.format = "srt" THEN cue.identifier ELSE <<Number(i)>>
                ELSE IF doc.format = "vtt" THEN cue.identifier ELSE <<>>
        timing == Timing(Timestamp(cue.start, format), Timestamp(cue.end, format),
                         IF doc.format = format THEN cue.settings ELSE <<>>)
        text == IF mode = "translation" THEN new
                ELSE IF order = "translation-first" THEN new \o cue.text ELSE cue.text \o new
    IN  name \o <<timing>> \o text

MetadataAt(doc, n) ==
    LET here == Only(doc.metadata, {m \in ToSet(doc.metadata) : m.before = n})
    IN  [k \in DOMAIN here |-> here[k].text]

\* translations: a text for every cue.
RenderSubtitle(doc, translations, format, mode, order) ==
    LET own == format = "vtt" /\ doc.format = "vtt"
        at(n) == IF own THEN MetadataAt(doc, n) ELSE <<>>
        blocks ==
            (IF format = "vtt" THEN <<IF own THEN doc.header ELSE <<Heading>> >> ELSE <<>>)
              \o FlattenSeq([i \in DOMAIN doc.cues |->
                     at(i - 1) \o <<RenderCue(doc, i, translations[i], format, mode, order)>>])
              \o at(Len(doc.cues))
    IN  [format |-> format,
         lines |-> FlattenSeq([k \in DOMAIN blocks |-> Append(blocks[k], Blank)])]

Aligned(original, translated) ==
    /\ Len(original.cues) = Len(translated.cues)
    /\ \A i \in DOMAIN original.cues :
          /\ original.cues[i].start = translated.cues[i].start
          /\ original.cues[i].end = translated.cues[i].end

MergeSubtitles(original, translated, format, order) ==
    RenderSubtitle(original, [i \in DOMAIN translated.cues |-> translated.cues[i].text],
                   format, "bilingual", order)

=============================================================================
