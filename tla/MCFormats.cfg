\* Lengths and counts are small: three values are too many for a message and
\* sixty octets too long for it.
CONSTANTS
  NULL = NULL
  Unconvertible = Unconvertible
  MaxU16 = 2
  MaxI32 = 60
  SaltLen = 2
  TokenLen = 1
  Tag <- MCTag
  FTag <- MCFTag
  Streams <- MCStreams
  Requests <- MCRequests
  Modes = {"Standard", "OpenGauss"}
  MaxSends = 2
  MaxMicros = 1000
  MaxDays = 100
  DayMicros = 100
  NsecPerUsec = 10
  I32Max <- MCI32Max
  I64Max <- MCI64Max
  DecDigits = 2
  MaxMantissa = 9999
  MaxScale = 4
  WideSpan = 100000000
  MAGIC <- MCMagic
  CopyFlush = 40
  NotFinite = {99}
  MaxJsonInt = 1200
  DoubleStep = 10
  JsonDigits = 3
  UsecPerSec = 10
  Number <- MCNumber
  Addresses = {"::1", "127.0.0.1"}
  Decoded <- MCDecoded
  MaxPort = 65535
  LowerCase <- MCLowerCase
  Decimal10 <- MCDecimal10
  MaxMillis = 2147483647
  Letters = {"x", "t"}
  Digits = {"9"}
  Sent <- MCSent
  ValueCases <- MCValueCases
  RangeCases <- MCRangeCases
  RowCases <- MCRowCases
  ShowCases <- MCShowCases
  SettingCases <- MCSettingCases
  FileCases <- MCFileCases
  Literals <- MCLiterals
  Scripts <- MCScripts
  Encoded <- MCEncoded
SPECIFICATION Spec
CHECK_DEADLOCK FALSE
INVARIANTS
  MessagesAsSent
  RequestsAreWholeFrames
  TypesRoundTrip
  RowsReadBack
  ConfigReadBack
  SqlTextKept
  ShownAsIs
