SPECIFICATION SysSpec
CONSTANTS
  Resources = {body}
  NoResource = NoResource
  Epochs <- MCEpochs
  SeqMod = 8
  NoLease = NoLease
  Grants <- NoInput
  Answers <- NoInput
  Threads = {app, pump}
  Pump = pump
  Overlap = FALSE
  Calls = {c1, c2}
  MaxRoot = 2
  MaxUse = 2
SYMMETRY CallSymmetry
INVARIANTS IssuesNewerLeases AnswersDisownOnlyLost NoForeignLease
