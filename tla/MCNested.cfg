SPECIFICATION LoopSpec
CONSTANTS
  Area = {a1, a2}
  Buffer = {b1, b2, b3}
  MaxAge = 3
  MaxFailures = 1
PROPERTIES
  SubmittedIsWhole
  LoopGoesOn
\* The loop ends when the user quits.
CHECK_DEADLOCK FALSE
