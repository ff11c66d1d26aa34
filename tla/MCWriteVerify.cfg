SPECIFICATION Spec
CONSTANTS
  limit = limit
  firmware = firmware
  On = On
  Off = Off
  Eco = Eco
  Malformed = Malformed
  Topics = {serial, firmware, limit}
  SerialTopic = serial
  Values = {3, 4}
  Gone = Gone
  Garbage = Garbage
  NoEntry = NoEntry
  InboxMaxSize = 1
  AgeCap = 3
  WritePathAllowlist = {"set_inverter_mode", "set_charge_current_limit"}
  MaxChargeCurrent = 5
  MinSocLimit = 3
  MaxSocLimit = 4
  AllowedModes = {On, Off, Eco}
  ModeCodes <- MCModeCodes
  Contracts <- MCContracts
  Writers = {w1}
  Requests <- AllRequests
  NoRequest = NoRequest
  Notices <- MCNotices
  StaleAfter = 1
  PollLimit = 1
  Configs <- MCConfigs
INVARIANT AnswerTellsOfPublication
PROPERTIES PublishesQualified VerifiedMeansReadBack
