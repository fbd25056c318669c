CONSTANTS
  Interval = 2
  Threshold = 5
SPECIFICATION Spec
INVARIANTS DegradedIsEarned FreezeIsReported AlarmIsTold
PROPERTIES DemotionSticks DeathIsTold
