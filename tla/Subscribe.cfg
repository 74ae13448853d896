\* Subscriptions while the app changes hands and terms.
SPECIFICATION MarketSpec
CONSTANTS
  dev = dev
  usr = usr
  sound = sound
  lax = lax
  NoAddr = NoAddr
  Accounts = {dev}
  Admin = dev
  Contents <- MCContents
  NoContents <- MCNoContents
  Passes = {0, 1}
  UpdateDelay = 1
  StartTime = 2
  MaxTime = 3
  MaxApps = 1
  Subscribers = {usr}
  LaxCurrencies = {lax}
  Never = 9
INVARIANTS
  MarketTypeOK
  AccessIsPaid
PROPERTIES
  AccessLasts
