\* A deploy and a concurrent or later resume of its buffer, with the same or
\* another artifact, every fault.
SPECIFICATION Spec
CONSTANTS
  r1 = r1
  r2 = r2
  r3 = r3
  r4 = r4
  r5 = r5
  e1 = e1
  e2 = e2
  a1 = a1
  a2 = a2
  Runs = {r1, r2, r3, r4}
  Elfs = {e1, e2}
  Called <- CalledResume
  Authorities = {a1}
  ElfLen <- MCElfLen
  Cfg <- CfgResume
  ProgramRent = 1
  DataRent <- MCDataRent
  BufferRent <- MCBufferRent
  PayerFunds = {6, 7, 8, 9}
  MaxLen = 4
  Zero = Zero
  NoAccount = NoAccount
  Faults = {"crash", "timeout", "lost", "expire", "fork", "fail"}
  MaxFork = 3
INVARIANTS
  TypeOK
  RecordedOnce
  EvidenceIsFinal
  DeployedIntact
  FinalizedMeansDeployed
  FundsSuffice
