CONSTANTS
  u1 = u1
  u2 = u2
  u3 = u3
  u4 = u4
  c1 = c1
  d1 = d1
  d2 = d2
  d3 = d3
  Updates <- MCUpdates
  Clients <- MCClients
  Devices <- MCDevices
  DeviceOf <- MCDeviceOf
  MaxSensors = 2
  Lag = 2
  MaxTime = 1
SYMMETRY MCSymmetry
SPECIFICATION Spec
CHECK_DEADLOCK FALSE
INVARIANTS CacheTypeOK NoStaleValue StreamHasNoGap
