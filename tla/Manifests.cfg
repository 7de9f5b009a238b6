CONSTANTS
    v1 = v1  c1 = c1  r = r  s = s  u = u  a = a  d = d  g = g
    i1 = i1  i2 = i2  i3 = i3  i4 = i4  t1 = t1
    Viewers = {v1}
    Clients = {c1}
    Coordinators = {}
    Paths = {r, s, u, a, d, g}
    Collections = {r, s, u}
    Ids = {i1, i2, i3, i4}
    Texts = {t1}
    Blank = Blank
    None = None
    JobsOf <- MCJobs
    RootsOf <- Nowhere
    StripsOf <- Nowhere
    ViewsOf <- AtR
    Below <- MCBelow
    PathOrder <- MCPathOrder
    TreeOrder <- MCTreeOrder
    PageSize = 1
    Ignored <- MCIgnored
    IgnoreFiles = {g}
    MimeOf <- NoValues
    ChecksumOf <- NoValues
    InitialAvus <- MCCatalogs
SPECIFICATION MFairSpec
INVARIANTS ManifestTypeOK ManifestIsTree ManifestSound
PROPERTY ManifestEnds
