SPECIFICATION Spec
CONSTANTS
  k1 = k1
  k2 = k2
  Keys = {k1, k2}
  Params <- Default
  CACHE_TIME = 2
  CACHE_MAXTIME = 3
  CACHE_MINCYCLE = 2
  CACHE_HIGHWATER = 2
  CACHE_LOWWATER = 1
  Gap = 2
  MaxEntries = 3
SYMMETRY KeySymmetry
PROPERTIES
  PurgesOldestFirst
