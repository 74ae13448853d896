\* The registry; the owner may write any uint8 as a pass (2 stands for 2 .. 255).
SPECIFICATION ReviewSpec
CONSTANTS
  adm = adm
  dev = dev
  NoAddr = NoAddr
  Accounts = {adm, dev}
  Admin = adm
  Contents <- MCContents
  NoContents <- MCNoContents
  Passes = {0, 1, 2}
  UpdateDelay = 1
  StartTime = 2
  MaxTime = 3
  MaxApps = 1
INVARIANTS
  TypeOK
  PassMeansReviewed
PROPERTIES
  RevocationLasts
  ShownContentsFrozen
\* Time ends at MaxTime: an ownerless registry has then nothing left to do.
CHECK_DEADLOCK FALSE
