SPECIFICATION Spec
CONSTANTS
  Years <- MCYears
  Attempts = {1, 2}
  Fees <- MCFees
  Carries <- MCCarries
  Configured <- MCConfigured
  Amount <- MCAmount
  Instants <- MCInstants
  Starts <- MCStarts
  Queries <- MCQueries
  MaxPageSize = 2
  MaxExportPageSize = 4
  MaxWrites = 1
INVARIANTS
  TypeOK
  DaysTile
  PeriodsOpenRight
  YearsCompare
  BreakdownMatchesCounts
  PeriodsNested
  ExportExact
PROPERTY PastDaysOnlyLose
