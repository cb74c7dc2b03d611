CONSTANTS
    Kinds = {"battery", "file", "folder"}
    MaxSaves = 2
SPECIFICATION FreshSpec
INVARIANTS TypeOK MirrorFresh
PROPERTY StartsFromNewest
