SPECIFICATION RtSpec
CONSTANTS
  Streak = 2
  StepBudget = 1
  Severity <- AllPause
INVARIANT PauseHolds
INVARIANT ForegroundIsNotHeld
PROPERTY LatchIsReleasedByResumeOnly
