SPECIFICATION ResolverSpec
CONSTANTS
  Threads = {t1, t2}
  Hosts = {h1, h2}
  Literals = {h2}
  Places = {p1, p2, p3, p4}
INVARIANTS ClashIsInline CopyIsOwn CacheIsSound
PROPERTY LookupEnds
