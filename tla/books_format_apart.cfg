SPECIFICATION Spec
CONSTANTS
    None = None
    Task = {i1, i2}
    Book = {"b1", "b2"}
    Title = {"t1", "t2"}
    Reference = {"r1", "r2", "r3"}
    Format = {"f1", "f2", "page"}
    Readable = {"f1", "f2"}
    Entry <- MCEntry
    External <- MCExternal
    Stored <- MCImported
    KnownCategories = {"novel"}
SYMMETRY Symmetry
INVARIANT FormatTravelsWithLink
