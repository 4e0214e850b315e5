CONSTANTS Prompts = {1, 2}
          MaxTyped = 0
SPECIFICATION InteractionSpec
INVARIANTS StopCompletesItsOwn
CHECK_DEADLOCK FALSE
