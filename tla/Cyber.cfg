\* Sites of up to seven pages, three endpoints per check, two of them timed, two lost requests; up to three
\* lines in three waves, half of the findings above "low" may be dismissed.
SPECIFICATION Spec
CONSTANTS
  EndpointLimit = 3
  TimingLimit = 2
  AllowedMethods = {"GET", "OPTIONS", "TRACE"}
  MaxRequests = 17
  MaxPages = 7
  MaxDepth = 3
  SitemapLimit = 2
  MaxDrops = 2
  Scenarios <- AllScenarios
  Candidates <- Found
  AtEndpoints <- Endpoint
  DefaultLines <- Standard
  PlanAnswers <- Plans
  MaxLines = 3
  EscalationMaxLines = 2
  MaxWaves = 3
  MaxParallel = 2
  MaxReview = 3
  Protected = "low"
  MaxDismissed <- Half
  MaxVerdicts = 2
  None = None
  Projects <- SourceTrees
  MaxFiles = 3
INVARIANTS
  CrawlComplete
  ScanFinds
  NothingInferred
  JudgementsBounded
  SourcesJudged
PROPERTIES
  Implements
  CommandEnds
CHECK_DEADLOCK FALSE
