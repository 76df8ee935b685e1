SPECIFICATION Spec
CONSTANTS
  Free = Free
  Letters <- MCLetters
  Kits <- MCKits
INVARIANTS PointersLive TablesAgree AnswersRight RefusalsRight
PROPERTIES ImplementsCatalogue
