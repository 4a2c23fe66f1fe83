CONSTANTS
  Crons <- FirstAndThirtieth
  Starts <- SecondOfFebruary
  LastYear = 2023
CHECK_DEADLOCK FALSE
SPECIFICATION CronSpec
INVARIANT NextIsFirst
