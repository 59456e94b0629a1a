SPECIFICATION SubprocessSpec
CONSTANTS
  Thread = {main}
  Chunks = 1
  Lingers = TRUE
PROPERTIES
  TimeoutAnswers
CHECK_DEADLOCK FALSE
