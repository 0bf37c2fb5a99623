\* The same instance, on the claim that each match is dealt with once.
CONSTANTS
  MaxRegex = 2
  MaxGroups = 2
  Spare = 1
  Patterns <- MCPatterns
  BadPatterns <- MCBadPatterns
  NoSub <- MCNoSub
  Leftovers <- MCLeftovers
  Nsub <- MCNsub
  Simple <- MCSimple
  Regexec <- MCRegexec
  Texts <- MCTexts
  Replacements <- MCReplacements
  LoopTexts <- MCLoopTexts
  ExecTexts <- MCExecTexts
  HandleArgs <- MCHandleArgs
  GroupArgs <- MCGroupArgs
  NULL = NULL
SPECIFICATION Spec
INVARIANT
  EachMatchOnce
