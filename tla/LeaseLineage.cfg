SPECIFICATION LineageSpec
CONSTANTS
  body = body
  Resources = {body}
  NoResource = NoResource
  Epochs = {0}
  SeqMod = 4
  Delegates = {arm, camera, legs}
  NotLent = NotLent
  Granted <- MCGranted
  MaxLength = 4
SYMMETRY DelegateSymmetry
INVARIANTS DelegatesNeverOutrank ComparisonsAgree
