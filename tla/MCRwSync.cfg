CONSTANTS
  TARFILE = "gnap_sav.tgz"
  BAKFILE = "gnap_bak.tgz"
  RESFILE = "gnap_res.tgz"
  MD5FILE = "gnap_md5.sum"
  Capacity = 4
  MaxEdits = 3
  MaxFaults = 2
  Size <- MCSize
SPECIFICATION Spec
INVARIANT RestoredIsSaved
CHECK_DEADLOCK FALSE
