SPECIFICATION ChatSpec
CONSTANTS
  Sockets = {k1}
  Operators = {o1}
  BusSize = 1
  MaxQuestions = 1
PROPERTIES
  RestartedRuns
