SPECIFICATION Spec
CONSTANTS
  DEFAULT_OVERRIDE = 100
  MIN_OVERRIDE = 10
  MAX_OVERRIDE = 200
  COARSE_INCREMENT = 10
  FINE_INCREMENT = 1
  RAPID_OVERRIDE_MEDIUM = 50
  RAPID_OVERRIDE_LOW = 25
  Characters <- MixedCharacters
  MaxCharacters = 12
PROPERTY FollowsWhenRoomy
