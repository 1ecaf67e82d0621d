SPECIFICATION DownloadSpec
CONSTANTS
    e1 = e1
    e2 = e2
    d1 = d1
    d2 = d2
    p = p
    q = q
    r = r
    s = s
    t = t
    none = none
    Editor <- TwoEditors
    Reader <- TwoReaders
    Image <- Images
    NoImage = none
    MaxPages = 3
    MaxChapter = 2
    Scales <- AllScales
SYMMETRY Alike
INVARIANTS TypeOK SelfRepair MembershipFollows PagesAreDistinct DeletedIsEmpty DownloadsAreCurrent
