SPECIFICATION Spec
CONSTANTS
  d1 = d1
  d2 = d2
  a1 = a1
  a2 = a2
  a3 = a3
  l1 = l1
  l2 = l2
  l3 = l3
  NoAgent = NoAgent
  NoLink = NoLink
  NoDevice = NoDevice
  Devices <- MCDevices
  Agents <- MCAgents
  Links <- MCLinks
  DeviceOf <- MCDeviceOf
  MaxAttempts = 2
INVARIANT OnlineIffLinked
PROPERTY KeepsPresence
PROPERTY LinkSettles
CHECK_DEADLOCK FALSE
