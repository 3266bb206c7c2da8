\* Two deploys and two upgrades of one program.
SPECIFICATION Spec
CONSTANTS
  r1 = r1
  r2 = r2
  r3 = r3
  r4 = r4
  r5 = r5
  e1 = e1
  e2 = e2
  a1 = a1
  a2 = a2
  Runs = {r1, r2, r3, r4, r5}
  Elfs = {e1, e2}
  Called <- MCCalled
  Authorities = {a1, a2}
  ElfLen <- MCElfLenUneven
  Cfg <- CfgUpgrades
  ProgramRent = 1
  DataRent <- MCDataRent
  BufferRent <- MCBufferRent
  PayerFunds = {18}
  MaxLen = 3
  Zero = Zero
  NoAccount = NoAccount
  Faults = {"fork"}
  MaxFork = 2
INVARIANTS
  FinalizedMeansDeployed
  RefusedUpgradesSendNothing
PROPERTY ChecksFailClosed
