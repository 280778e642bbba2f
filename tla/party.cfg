SPECIFICATION FairSpec
CONSTANTS
  Browsers = {a, b}
  Items = {i}
  MaxQuantity = 1
  MaxPuts = 2
  MaxPolls = 1
  Limits <- MCLimits
  MaxEvents = 4
INVARIANTS TypeOK OneHost UnsentIsDirty UnsentIsScheduled
PROPERTIES EditSurvivesAnswers LoneSaveReplacesBucket EditIsSaved ScreensAgree
CHECK_DEADLOCK FALSE
