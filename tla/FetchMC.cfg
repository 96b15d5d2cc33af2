\* Two agreeing recipes and an odd one, two faults, every answer of every source.
CONSTANTS
  Tasks = {t1, t2, odd}
  t1 = t1
  odd = odd
  good = good
  other = other
  loc = loc
  mir = mir
  Contents = {good, other}
  Mixed = mixed
  None = none
  Empty = empty
  up = up
  up2 = up2
  Upstreams = {up, up2}
  Changing = {up}
  HttpMirrors = {mir}
  FileMirrors = {loc}
  MaxFaults = 2
  Wants <- MCWants
  UpstreamOf <- MCUpstreamOf
  Premirrors <- MCPremirrors
  Mirrors <- MCMirrors
SPECIFICATION FairSpec
INVARIANTS
  IInv
  UnpacksWhatItFetched
PROPERTIES
  GoodFileStays
  FetchSucceeds
