SPECIFICATION Spec
CONSTANTS
  body = body
  arm = arm
  Resources = {body, arm}
  NoResource = NoResource
  Epochs = {0, 1}
  SeqMod = 3
  NoLease = NoLease
  Grants <- MCGrants
  Answers <- MCAnswers
  Threads = {app, pump}
  Overlap = TRUE
PROPERTY ImplementsAtomic
