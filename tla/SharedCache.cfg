SPECIFICATION CacheSpec
CONSTANTS
  Absent = absent
  Keys = {k1, k2}
  Workers = {w1}
  Ops = {"get", "put", "flush"}
  MaxPuts = 3
 
PROPERTIES AnswersCurrent 
CHECK_DEADLOCK FALSE
