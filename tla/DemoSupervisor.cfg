CONSTANTS
  Faults = {thruster_loss, packet_loss}
  kThrusterLoss = thruster_loss
  kPacketLoss = packet_loss
  DropEvery = 2
  MaxSteps = 2
  MaxCommands = 1
SPECIFICATION Spec
CHECK_DEADLOCK FALSE
INVARIANTS
  OneSnapshot
PROPERTIES
  SimulatorEnds
  DemoEnds
  ExitsAfterSignalling
