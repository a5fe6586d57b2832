SPECIFICATION Spec
CONSTANTS
  Key = {k1, k2, k3, k4}
  GroupIdx = {"group0", "group1"}
  Readers = {rx, tx}
  nohwcrypt = "no"
  None = None
SYMMETRY Symmetry
INVARIANTS
  KeyUnderRcu
  UploadedIsInFirmware
  LiveIsOwned
CHECK_DEADLOCK FALSE
