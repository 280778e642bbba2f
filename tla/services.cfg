SPECIFICATION ServicesSpec
CONSTANTS
  Guests = {a, b, c}
  Patches <- MCPatches
  Slots = {r1, r2}
  MaxMinutes = 2
  MaxRequests = 2
  Tries = {t1, t2}
  MaxAttempts = 2
  MaxCodes = 2
  MaxTries = 6
  CalledGuests = {g1, g2}
  Ticks = {k1, k2}
  MaxTicks = 3
  MaxLapses = 1
INVARIANTS
  ServicesTypeOK
  EstimateHonest
  EstimatesInOrder
  SettingsKept
  CodeLimits
  OneReminder
SYMMETRY MCSymmetry
CHECK_DEADLOCK FALSE
