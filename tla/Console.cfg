SPECIFICATION Spec
CONSTANTS
  COLS = 2
  LINES = 3
  PAGE = 4
  TAB = 2
  NPAR = 2
  WORKLOADS <- MCWorkloads
  DIGITS <- MCDigits
  ECHOED <- MCEchoed
  CUT <- MCCut
  MAXPAR = 3
  SEVEN = 1
  EIGHT = 2
  BEEP = 1
VIEW ControlView
CONSTRAINT Apart
INVARIANTS VideoSound ScreenShown
