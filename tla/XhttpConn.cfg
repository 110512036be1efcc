SPECIFICATION ConnSpec
CONSTANTS
  Modes = {"stream-one", "stream-up", "packet-up"}
  Writers = {w1}
  MaxSeq = 2
INVARIANTS NothingLeftOpen LocalEndNotBlamed NoSilentGap
PROPERTIES ImplementsHandle NoUploadAfterRelease ReadEnds WriteEnds EndReleases
CHECK_DEADLOCK FALSE
