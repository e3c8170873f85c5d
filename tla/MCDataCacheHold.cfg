INIT DcInit
NEXT DcNext
CONSTANTS
  DcBuilds <- MCWriteBack
  DcSets = 1
  DcBurst = 2
  DcLines = 3
  DcHolds = {FALSE, TRUE}
INVARIANT LoadsLatest
