\* Lines of up to seven characters, so that a fourth word is one more than
\* `tokens' has room for; one letter, since words of different lengths tell
\* which is which.
CONSTANTS
  MAX_LEN = 8
  Letters = {"a"}
  QUIT = "a"
  MAX_TOKENS = 3
SPECIFICATION Spec
INVARIANTS InputTypeOK CommandGetsWords ArgumentsAreSpaced OnlyLongLinesOverrun
PROPERTIES SkipsExactlyBlankLines TerminalGivenBack ExitEnds
