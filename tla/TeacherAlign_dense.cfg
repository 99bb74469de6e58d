CONSTANTS
  NumRows = 2
  PromptWidth = 2
  ResponseWidth = 3
  TeacherWidth = 3
SPECIFICATION MCSpec
INVARIANT ResponseLinesUp
