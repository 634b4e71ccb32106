SPECIFICATION Spec
CONSTANTS
  e1 = e1  e2 = e2  e3 = e3
  c1 = c1  c2 = c2
  css = css  lua = lua
  Blobs <- TwoBlobs
  Flaky <- FlakyBlob
  Entries <- ThreeEntries
  Callers <- TwoCallers
  Root = Root
  Nil = Nil
  Limits <- SomeLimits
  TTLs <- OnOff
  Sweeps <- OneOrTwo
  FirstSweep = 2
  MaxIdle = 2
  MaxChanges = 2
INVARIANT RetainsAtMostLimit
