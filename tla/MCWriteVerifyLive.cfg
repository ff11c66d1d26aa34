SPECIFICATION FairSpec
CONSTANTS
  limit = limit
  firmware = firmware
  On = On
  Off = Off
  Eco = Eco
  Malformed = Malformed
  Topics = {serial, limit}
  SerialTopic = serial
  Values = {3}
  Gone = Gone
  Garbage = Garbage
  NoEntry = NoEntry
  InboxMaxSize = 1
  AgeCap = 2
  WritePathAllowlist = {"set_inverter_mode", "set_charge_current_limit"}
  MaxChargeCurrent = 5
  MinSocLimit = 3
  MaxSocLimit = 4
  AllowedModes = {On, Off, Eco}
  ModeCodes <- MCModeCodes
  Contracts <- MCContracts
  Writers = {w1, w2}
  Requests <- QualifiedLimit
  NoRequest = NoRequest
  Notices <- FewNotices
  StaleAfter = 1
  PollLimit = 1
  Configs <- WritesOn
PROPERTY WriteReturns
