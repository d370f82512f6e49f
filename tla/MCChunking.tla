----------------------------- MODULE MCChunking -----------------------------
(* Instances of Chunking for TLC.                                          *)
EXTENDS Chunking

CONSTANTS en, ja

Words(n, ends) == Line("words", [length |-> n, ends |-> ends])
Said == Words(1, {})
Indented(line) == [line EXCEPT !.margin = "wide"]
MarkBefore(line) == [line EXCEPT !.margin = "mark"]
OnlyMark == Line("mark", 0)

-----------------------------------------------------------------------------
(* Every file of five cues of a few kinds: what is said and the pause after *)
(* it.                                                                     *)

Short == [says |-> Said, pause |-> 0]
\* ends a sentence in both languages, and in one only
Stop == [Short EXCEPT !.says = Words(1, {en, ja})]
Abbreviation == [Short EXCEPT !.says = Words(1, {ja})]
Scene == [Short EXCEPT !.pause = 3000]
Long == [says |-> Words(5, {}), pause |-> 1500]

Kinds == {Short, Stop, Abbreviation, Scene, Long}

\* Every cue takes a second.
FileOf(kinds) ==
    LET start[i \in 1 .. 5] ==
            IF i = 1 THEN 0 ELSE start[i - 1] + 1000 + kinds[i - 1].pause
        at(t) == Timestamp(t, "srt")
    IN  [format |-> "srt",
         lines |-> FlattenSeq([i \in 1 .. 5 |->
                      <<Number(i), Timing(at(start[i]), at(start[i] + 1000), <<>>),
                        kinds[i].says, Blank>>])]

FiveCues == {FileOf(kinds) : kinds \in [1 .. 5 -> Kinds]}

-----------------------------------------------------------------------------
(* Files of odd lines.                                                     *)

At(h, m, s, mark) == Stamp(h, m, s, 40, mark, FALSE)
From(s, mark, place) == Timing(At(0, 0, s, mark), At(1, 59, 59, mark), place)
Note == Line("note", 0)

SrtPieces ==
    LET t == From(7, "comma", <<"left">>)
    IN  {<<Number(7), From(1, "comma", <<>>), Said>>,
         <<Wide>>,
         <<Indented(Number(8)), t, MarkBefore(Said), Wide, OnlyMark, Said, OnlyMark>>,
         <<Number(9), t, t, Number(9)>>,
         <<Number(1), Timing(At(0, 0, 9, "comma"), At(0, 0, 8, "comma"), <<>>), Said>>,
         <<Number(1), t>>,
         <<Note, t, Said>>}

VttPieces ==
    LET t == From(7, "point", <<"left">>)
        short == Timing(Stamp(0, 59, 59, 999, "point", TRUE), At(1, 0, 0, "point"), <<>>)
    IN  {<<From(1, "point", <<>>), Said>>,
         <<Note, t, Said>>,
         <<Indented(Note), t, Said>>,
         <<Line("name", 1), short, Indented(Said), Wide, Said>>,
         <<Heading, short, Note>>,
         <<OnlyMark, t, Number(1)>>,
         <<Timing(At(2, 0, 0, "point"), At(2, 0, 0, "point"), <<>>), Said>>}

File(format, blocks) ==
    [format |-> format, lines |-> FlattenSeq([i \in DOMAIN blocks |-> blocks[i] \o <<Blank, Blank>>])]

OddFiles ==
    {File("srt", <<a, b>>) : a, b \in SrtPieces}
      \cup {File("vtt", <<h, a, b, <<Note>> >>) :
               h \in {<<Heading, Said>>, <<Said>>}, a, b \in VttPieces}

\* A bilingual export of this one is too long to be read.
ThreeCues ==
    File("srt", [i \in 1 .. 3 |-> <<Number(i), From(i, "comma", <<>>), Said, Said>>])

SomeFiles == FiveCues \cup OddFiles \cup {ThreeCues}

-----------------------------------------------------------------------------

Texts == {<<Said>>, <<Blank, Indented(Number(2)), Blank, Wide, From(7, "comma", <<>>)>>,
          <<Note, Blank, Heading, Said, Said>>, <<Wide>>, <<OnlyMark>>,
          <<MarkBefore(Said), OnlyMark, Said>>, <<Said, OnlyMark, MarkBefore(Said)>>,
          <<Wide, Said, OnlyMark>>}
SomeTranslations ==
    {<<t>> : t \in Texts} \cup {<<t, u>> : t, u \in Texts} \cup {[i \in 1 .. 3 |-> <<Said, Said>>]}

Cut(l, t, n, m) == [language |-> l, target |-> t, maxSize |-> n, maxCharacters |-> m]

SomeSettings ==
    {Cut(en, 2, 3, 20), Cut(ja, 2, 3, 20), Cut(en, 2, 3, 4), Cut(en, 1, 1, 20), Cut(en, 4, 5, 4)}

=============================================================================
