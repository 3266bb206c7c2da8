\* Without faults: a deploy and an upgrade complete.
SPECIFICATION FairSpec
CONSTANTS
  r1 = r1
  r2 = r2
  r3 = r3
  r4 = r4
  r5 = r5
  e1 = e1
  e2 = e2
  a1 = a1
  a2 = a2
  Runs = {r1, r2}
  Elfs = {e1, e2}
  Called <- MCCalled
  Authorities = {a1}
  ElfLen <- MCElfLenUneven
  Cfg <- CfgUpgrade
  ProgramRent = 1
  DataRent <- MCDataRent
  BufferRent <- MCBufferRent
  PayerFunds = {10, 13}
  MaxLen = 3
  Zero = Zero
  NoAccount = NoAccount
  Faults = {}
  MaxFork = 2
PROPERTIES
  CallsComplete
