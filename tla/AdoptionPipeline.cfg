SPECIFICATION FairSpec
CONSTANTS
  h1 = h1
  h2 = h2
  j1 = j1
  j2 = j2
  NoJson = NoJson
  Handlers = {h1, h2}
  Jsons = {j1, j2}
  Prompts <- LongPrompts
  MaxHistory = 1
  MaxTemplates = 2
INVARIANTS
  TemplateHasAdoptedSource
  AdoptedIsInLibrary
PROPERTY EveryTemplateIndexed
CHECK_DEADLOCK FALSE
