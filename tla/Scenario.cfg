\* A scenario of two orders beside the batch handler and the script, which
\* create one each.
SPECIFICATION FairScenarioSpec
CONSTANTS
  Orders = {o1, o2}
  h1 = h1
  h2 = h2
  h3 = h3
  Clients = {h1, h2, h3}
  Batch <- TwoAndOne
  Kind <- OneOfEach
  Retries = FALSE
INVARIANTS ScenarioTypeOK ReportTrue
PROPERTY ClientsFinish
CHECK_DEADLOCK FALSE
