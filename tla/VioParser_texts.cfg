SPECIFICATION FairSpec
CONSTANTS
  Texts <- AllTexts
  Letters <- SomeLetters
INVARIANTS
  TypeOK
  StacksAgree
  SkipsOnlyComments
  AcceptsExpressions
  NothingLost
  ReturnsTheTree
  FilesParse
PROPERTIES
  GivesUpOnTime
  ReportsTruePlace
  Parses
