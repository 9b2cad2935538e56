SPECIFICATION Spec

CONSTANTS
    File <- Files
    Tag <- Tags
    LateFile <- LateFiles
    LateTag <- LateTags
    Path <- Paths
    TagName <- TagNames
    Hash <- Hashes
    Text <- Texts
    NotDigits = NotDigits
    UnknownId = UnknownId
    AmbiguousId = AmbiguousId
    Asked <- AskedAfter

INVARIANTS
    SearchIsConjunction
    TagsAndSearchAgree
    ShortIdsTell
