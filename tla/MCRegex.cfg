\* Two slots of two groups each, texts of up to four letters.
CONSTANTS
  MaxRegex = 2
  MaxGroups = 2
  Spare = 1
  Patterns <- MCPatterns
  BadPatterns <- MCBadPatterns
  NoSub <- MCNoSub
  Leftovers <- MCLeftovers
  Nsub <- MCNsub
  Simple <- MCSimple
  Regexec <- MCRegexec
  Texts <- MCTexts
  Replacements <- MCReplacements
  LoopTexts <- MCLoopTexts
  ExecTexts <- MCExecTexts
  HandleArgs <- MCHandleArgs
  GroupArgs <- MCGroupArgs
  NULL = NULL
SPECIFICATION Spec
INVARIANTS
  TypeOK
  GroupsTellLastExec
  BufferIsNotOverrun
  AnswerIsExact
PROPERTY
  LoopsEnd
