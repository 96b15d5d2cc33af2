SPECIFICATION Spec
CONSTANTS
  Tasks <- FourTasks
  Builds <- AllBuilds
  Hashes = {0, 1}
  number_tasks = 2
  MaxRehash = 1
  MaxFailures = 1
INVARIANTS
  TypeOK
  CollapsedIsReachable
  DependenciesFirst
  InputsThere
  NoDoubleWork
  VerdictIsTrue
PROPERTY Terminates
