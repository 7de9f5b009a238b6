CONSTANTS
    k1 = k1  c1 = c1  r = r  s = s  a = a  b = b  x = x  g = g
    i1 = i1  i2 = i2  i3 = i3  i4 = i4  t1 = t1  t2 = t2
    Clients = {k1}
    Coordinators = {k1}
    Paths = {r, s, a}
    Collections = {r, s}
    Ids = {i1, i2, i3}
    Texts = {t1, t2}
    Blank = Blank
    None = None
    JobsOf <- CreateOnA
    RootsOf <- AtR
    StripsOf <- Nowhere
    Below <- MCBelow
    PathOrder <- MCPathOrder
    Ignored <- MCIgnored
    IgnoreFiles <- MCIgnoreFiles
    MimeOf <- NoValues
    ChecksumOf <- NoValues
    InitialAvus <- OnlyNothing
SPECIFICATION CSpec
INVARIANTS MarkedHasId
