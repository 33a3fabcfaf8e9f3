SPECIFICATION Spec
CONSTANTS
  Headers <- SomeHeaders
  MaxVolumes = 2
INVARIANT TypeOK
INVARIANT EveryHeaderCounted
INVARIANT WeakestIsFewest
INVARIANT OkHoldsForEveryVolume
INVARIANT HashOkMeansCovered
