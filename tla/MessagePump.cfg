SPECIFICATION FairSpec
CONSTANTS
  stream = stream
  Calls = {stream, u1, u2}
  NoCall = NoCall
  Events <- MCEvents
INVARIANTS CrashNeedsRace CallbacksStopAtShutdown AliveUntilCallback
PROPERTIES ImplementsAsync EveryFutureSettles ShutdownEnds
