CONSTANTS
  MaxPieces = 3
  MaxProactive = 2
  MaxCommands = 2
  Directories <- Dirs
  Applications <- Apps
  Elementary <- Efs
  Modelled <- Known
  ChannelNumbers <- Channels
  MaxHidden = 1
  MaxOps = 4
  FileContents <- Contents
  CallData <- Updates
  Ff = "F"
  MaxCmdLen = 2
  MaxFlaws = 2
  PileSize = 3
  TriesSet <- OnceOrTwice
  MaxTrouble = 3
  MaxStarts = 2
  DataLengths <- Lengths
  KeyLengths <- KeyBytes
  SecureChans <- Basic
  MaxSecure = 2
  MaxPayload = 2
  Clients = {c1, c2}
  MatchingIds = {"A", "B"}
  Transactions = {"1A", "22"}
  Digits = {"22"}
  Sizes <- UnitsOf
  Setups = {"good", "bad chain"}
  Changing = {"A"}
  MaxChanges = 1
  Tools = {"t1", "t2"}
  ApduLengths <- Bytes
  Spis <- SpiSet
  Counters = {1, 2}
  MaxOta = 2
  TracedDirectories <- SniffedDirs
  TracedElementary <- SniffedEfs
  TracedModelled <- SniffedKnown
  TracedChannels <- Basic
  MaxPackets = 4
  Options <- CommandLines
  Rows <- CsvFile
  CardIds <- Cards
  AppSets <- UsimIsim
  AbsentSets <- WithAndWithout
  MaxRefused = 1
  Elements <- ElementsOf
  Upps <- UppsOf
  Anchors <- AnchorTypes
  MaxEdits = 2
  Drivers <- AllDrivers
  Headers <- HeadersOf
  Answers <- AnswersOf
  HeaderLength = 5
  MaxCalls = 3
  Layouts <- LayoutsOf
  BodyFiles <- BodyFilesOf
  ExportedDirs <- WalkedDirs
  ExportedApps <- WalkedApps
  ExportedBare <- BareApps
  ExportedEfs <- WalkedEfs
  ExportedMissing <- NotThere
  ExportedCards <- CardsOf
  ExportedStarts <- WalkStarts
  MaxDenied = 1
  AdminApplications <- AdminApps
  AdminDirs <- AdminDirsOf
  AdminEfs <- AdminEfsOf
  Issued <- IssuedOf
  Unmodelled <- UnmodelledOf
  Volumes = {1, 2}
  MaxAdmin = 4
  Sims <- SimsOf
  Codes <- CodesOf
  Providers <- ProvidersOf
  Typed = {"1", "9"}
  MaxTries = 2
  MaxTurns = 4
  Stock <- StockOf
  KnownApps <- KnownOf
  Openings <- OpeningsOf
  MaxTroubles = 1
  MaxInits = 2
  MaxEvents = 1
  CapFiles <- CapFilesOf
  ChunkLen = 4
  MaxDataLen = 2
  BlockNumbers = 3
  PageSize = 1
  Payloads = {0, 5, 7}
  AllKeys <- KeysOf
  Iccids = {"i1", "i2"}
  LongNames = {"long"}
  MaxRefusals = 1
  MaxJobs = 3
  Values <- ValuesOf
  Plmns <- PlmnsOf
  TableSize = 2
  Services = {1, 8, 9, 17}
  FileServices <- FileServicesOf
  Pairs <- PairsOf
  NotWithIsim = {8}
  Isim = TRUE
  MaxSteps = 3
SPECIFICATION CardSpec
SYMMETRY Downloaders
INVARIANTS
  CommandDoneOnce
  SessionTracked
  UpdatesTrusted
  BinsTrusted
  ChannelTrusted
  DownloadTrusted
  
  TraceTrue
  ProgramTrusted
  ProfilesTrusted
  ReadersTrusted
CHECK_DEADLOCK FALSE
