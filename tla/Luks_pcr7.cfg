SPECIFICATION Spec
CONSTANTS
  Headers <- SomeHeaders
  MaxVolumes = 2
INVARIANT EveryVolumeBindsPcr7
