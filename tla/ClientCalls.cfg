CONSTANTS
  Resources = {body, arm}
  NoResource = NoResource
  NoLease = NoLease
  Epochs <- MCEpochs
  SeqMod = 8
  Body = body
  Calls = {c1, c2}
  Chosen <- MCChosen
  MaxRoot <- MCMaxRoot
  MaxUse <- MCMaxUse
  MaxChunks = 2
  Lists <- MCLists
  arm = arm
SPECIFICATION Spec
SYMMETRY CallSymmetry
INVARIANTS
  OkMeansDone
  ResultsTakenIn
  ReturnOutranks
