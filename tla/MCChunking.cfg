\* Files of five cues and files of odd lines, read, cut, split and cut again under
\* five settings, and exported.
CONSTANTS
    en = en  ja = ja
    LastHour = 1
    SourceLimit = 4
    TranslationLimit = 6
    FileLimit = 20
    CueLimit = 5
    Language = {en, ja}
    Files <- SomeFiles
    Settings <- SomeSettings
    Translations <- SomeTranslations
SPECIFICATION Spec
INVARIANTS BlocksFit CutsAtBreaks ExportReadsBack
