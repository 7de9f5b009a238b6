SPECIFICATION RSpec
CONSTANTS
    h = h
    k = k
    p = p
    q = q
    i1 = i1
    i2 = i2
    i3 = i3
    t1 = t1
    Ids = {i1, i2, i3}
    Texts = {t1}
    Blank = Blank
    None = None
    Clients = {h, k}
    Handlers = {h}
    Paths = {p, q}
    JobsOf <- Strip
    MimeOf <- MCMimeOf
    ChecksumOf <- MCMimeOf
    InitialAvus <- Registered
    BucketOrder <- MCBucketOrder
    Configs <- OnlyPlain
    AsksOf <- GetOnly
    Storage <- MCStorage
INVARIANTS NoPanic
