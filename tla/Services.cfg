\* One of the services at a time, see MCServices.
SPECIFICATION Spec
CONSTANTS
  Nothing = Nothing
  NoOne = NoOne
  Malformed = Malformed
  \* A current worker, one of an old release, and one with another rule and no MLX model.
  ContractWorkers = {"new", "old", "other"}
  ContractJobs <- JobsOfEachKind
  ContractBackend = "whispercpp"
  ContractFallback = "mlx"
  Rule = 1
  RuleOf <- OtherRuleElsewhere
  OldRelease = {"old"}
  Renamed <- MlxRenamedElsewhere
  Diarizes = {"new", "old"}
  ContractAttempts = 2
  MaxChanges = 1
  \* A known-speaker call and another, both cancellable, with MLX as the back end.
  Call = {"c", "d"}
  Requested <- AskedModels
  Words = {"c"}
  Supported = {"c"}
  Cancellable = {"c", "d"}
  SttBackend = "mlx"
  Fallback = "whisperkit"
  KnownSpeakerBackend = "parakeet"
  Slots = 2
  \* The profile: 90 s of media in windows of up to 60 s on either side of a mark.
  MarkLists <- EarlyOrLateMarks
  Durations = {900}
  HalfWindow = 600
  Shifts <- ThreeShifts
  Swaps = 1
  Grids <- SoundOrDrifting
  \* The sidecar: three events with lengths below, at and beyond the limits.
  EventLengths = {0, 2, 3}
  MaxData = 2
  MaxPayload = 2
  MaxAudio = 4
  MaxChars = 0
  Widening = {0, 1, 2}
  MaxSpeech = 3
  FramesPerChunk = 2
  MaxEvents = 3
  \* Voices of Piper, or keys of Kokoro, whose files are replaced.
  Piper <- TwoPiperVoices
  Kokoro <- TwoKokoroKeys
  \* Two Piper voices and one Kokoro voice; Piper is the default.
  RoutedRequests = {"r"}
  PiperVoices = {"thorsten", "lessac"}
  KokoroVoices = {"martin"}
  Names = {"thorsten", "lessac", "martin", "MARTIN", "de", "en", "other"}
  Means <- NamesAndKeys
  LanguageVoices <- ForLanguages
  PiperLanguages <- PiperForLanguages
  DefaultBackend = "piper"
  DefaultVoice <- DefaultOfPiper
  \* Two requests in two languages, up to two sentences each.
  SpeechRequests = {"r", "q"}
  SpokenLanguages = {"de", "en"}
  MaxSentences = 2
  FormatLists <- OneOrThreeFormats
  \* Three sign-ins from two addresses for one user: two failures in two seconds.
  Attempts = {"a", "b", "c"}
  ClientAddresses = {"here", "there"}
  Users = {"ada"}
  MaxFailures = 2
  Lockout = 2
  LastSecond = 3
  Evictions = 1
  \* Three URLs, one on a private host and one not allowed; two redirects, two tries.
  Urls = {"site", "lan", "elsewhere"}
  AllowedUrls = {"site", "lan"}
  PrivateUrls = {"lan"}
  MaxRedirects = 2
  MaxBytes = 2
  BodyLengths = {Nothing, 1, 2}
  FetchBudget = 2
  Tries = 2
  \* The store without losses of power, and with two.
  Alias = Alias
  Reads <- TwoKeys
  Power <- TwoLosses
  \* A row in every table, one of them refused, in batches of one; one kill.
  SweptRows = {1, 2, 3, 4}
  SweptTable <- RowInEveryTable
  SweptJobs = {1, 2}
  SweptOwner <- TwoOfEachJob
  RefusedRows = {3}
  SweepBatch = 1
  SweepKills = 1
INVARIANTS CallsKeepToThemselves WordsAreKept ProfileIsComplete ConnectionsAreBounded
INVARIANTS SpeechAsRequested GuardsHold DryRunPredicts ContractHonoured HonestWorkersAccepted
INVARIANT NoTornObject
PROPERTIES StepsStayHonest StoreIsAtomic
CHECK_DEADLOCK FALSE
