SPECIFICATION Spec
CONSTANTS
    Words <- MCWords
    Documents <- MCDocuments
    OptionSets <- MCOptionSets
    SystemFaces = {"arial"}
    IndexedFaces = {"main", "other", "arial", "main,bold", "br}ace"}
    Digest <- MCDigest
    MaxSalt = 3
    ReadAs <- MCReadAs
    FontFiles <- MCFontFiles
    LineLength = 4
INVARIANTS TextInv CharactersAreEmbedded StripUndoesConversion ForeignFontsStay
