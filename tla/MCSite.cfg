\* Two requests, a theme in place, at any time a shutdown or a crash.
SPECIFICATION Spec
CONSTANTS
  r1 = r1
  r2 = r2
  Boot = Boot
  Wizard = Wizard
  None = None
  Requests = {r1, r2}
  Themes = {"given", "added"}
  Shipped = {"given"}
  MaxThemeItems = 1
  Emails = {e1, e2}
  e1 = e1
  e2 = e2
  Minutes = 1
  HourMinutes = 1
  Keep = 1
  MaxClock = 1
INVARIANTS TreesReleased 
PROPERTIES ConfigOnce 
SYMMETRY Symmetry
CHECK_DEADLOCK FALSE
