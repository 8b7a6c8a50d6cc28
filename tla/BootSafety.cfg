\* Every manifest of MCBoot.
CONSTANTS
  Manifests <- SmallManifests
  Said = {"look", "desk", "gone"}
  HandoffTool <- HandoffTools
SPECIFICATION BootSpec
INVARIANTS NothingDangles
CHECK_DEADLOCK FALSE
