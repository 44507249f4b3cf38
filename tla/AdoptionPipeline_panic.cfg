SPECIFICATION Spec
CONSTANTS
  h1 = h1
  h2 = h2
  j1 = j1
  j2 = j2
  NoJson = NoJson
  Handlers = {h1, h2}
  Jsons = {j1}
  Prompts <- LongPrompts
  MaxHistory = 1
  MaxTemplates = 1
INVARIANT AdoptingAddsToLibrary
CHECK_DEADLOCK FALSE
