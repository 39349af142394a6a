SPECIFICATION Spec
CONSTANTS
  Statuses = {302, 400, 401, 402, 403, 404, 413, 429, 500, 503, 529}
  MaxLines = 3
  MaxMessages = 4
  Words <- MCWords
  Break = "break"
  Failures <- MCFailures
  Messages <- MCMessages
  Requests <- MCRequests
  Responses <- MCResponses
  Options = {"a", "b", "c"}
  DefaultOptions = 1
  MaxOptions = 2
  MaxQuestions = 2
  MaxLevels = 3
  Absent = absent
INVARIANTS ClientFaultsKeepKeys ChatAgreesWithPool OutageIsSurfaced InBandAgrees EventsAreDelivered SystemTextIsIdentical ToolsStayPaired SystemOneIsWhole
PROPERTIES RootIsStable
CHECK_DEADLOCK FALSE
