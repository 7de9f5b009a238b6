CONSTANTS
    c1 = c1  c2 = c2  p = p  q = q
    i1 = i1  i2 = i2  i3 = i3  i4 = i4  t1 = t1  t2 = t2
    Clients = {c1, c2}
    Paths = {p, q}
    Texts = {t1, t2}
    Blank = Blank
    None = None
    Ids = {i1, i2, i3, i4}
    JobsOf <- SharedJobs
    InitialAvus <- BareOrRegistered
    MimeOf <- MCMimeOf
    ChecksumOf <- MCChecksumOf
SPECIFICATION Spec
INVARIANTS TypeOK NoOrphans PublishedResolvable
SYMMETRY FreshSymmetry
