SPECIFICATION MCSpec
CONSTANTS
  Method <- MCMethod
  MethodSize <- MCSize
  McWords = 16
  McCount = 16
  McBurst = 4
  McExec = 3
  NoMethod = NoMethod
INVARIANT HitIsResident
