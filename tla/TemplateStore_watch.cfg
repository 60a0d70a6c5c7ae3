SPECIFICATION FairSpec
CONSTANTS
    a = a
    b = b
    g = g
    c = c
    d = d
    e = e
    None = None
    Half = Half
    Name = {a, b}
    Group = {g}
    Priority = {1, 2}
    Command = {c, d, e}
    FileTemplates <- Files
    Id = {1}
    MaxChanges = 3
    MaxEnds = 1
INVARIANT TypeOK UpToDate TypedAsPosted
PROPERTY FilesAreLoaded
CHECK_DEADLOCK FALSE
