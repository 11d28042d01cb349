\* Three devices and an image, a bundle of two items, three leftovers of two
\* applications, two processes that update a policy and a cleaning, and a
\* browser of two files and a directory.
SPECIFICATION Spec
CONSTANTS
  ToolDevices = {"a", "b", "c"}
  ToolImages = {"r"}
  ToolImageOf <- ToolImageUsed
  ToolCases <- ToolChoices
  ToolBatch = 2
  ToolFaults = 1
  ToolMoves = 2
  BundleItems = {"x", "y"}
  BundleCases <- BundleChoices
  BundleFaults = 2
  BundleMoves = 2
  OrphanIds = {"app", "helper"}
  OrphanParent <- OrphanPrefix
  OrphanItems = {"cache", "logs", "web"}
  OrphanCases <- OrphanChoices
  OrphanSources = {"root", "registry", "spotlight"}
  OrphanFaults = 1
  OrphanMoves = 1
  PolicyUpdaters = {"u1", "u2"}
  PolicyAsked <- PolicyRequests
  PolicyCleaning <- PolicyCleaners
  PolicyNames = {"keep", "other"}
  PolicyInside <- PolicyOverlaps
  PolicyWritten <- PolicyFiles
  PolicyAt <- PolicyPlaces
  PolicyHeld <- PolicySwaps
  PolicyMaxRoots = 2
  PolicyMaxEntries = 2
  PolicyMaxBytes = 5
  BrowserFiles = {"f", "g"}
  BrowserDirs = {"d"}
  BrowserBelow <- BrowserInside
  BrowserMaxSelected = 2
  BrowserLines = 3
  BrowserScans = 2
  BrowserPlans = 1
  BrowserFaults = 1
INVARIANTS
  ReceiptsAreTrueSaveLateMoves
  QuietBatchCompletes
  PolicyIsKept
  EffectsAreGuarded
  NoOutcomeIsUnrecorded
  OneFaultInventsNoMove
CHECK_DEADLOCK FALSE
