SPECIFICATION Spec
CONSTANTS
  Batches <- MCBatches
  Forms <- MCForms
  SpansOf <- MCSpansOf
  Hashed = {}
  MaxSecurity = 1
  MaxTries = 2
  Traces = {"t1", "t2", "t3"}
  Scopes = {"a", "b"}
  BelowRate = {"t1"}
  RingSize = 2
  MaxServices = 1
  MaxRare = 1
  TTL = 2
  Window = 1
  Idle = 1
  RareTime = 2
  Target = 1
  MaxTime = 2
  MaxDecided = 3
  Services = {"a", "b"}
  SpanTraces = {"t1", "t2"}
  BadTraces = {"bad"}
  MaxRows = 2
  MaxTraceIDs = 3
  MaxBuckets = 2
  MaxMinute = 3
  MaxSpans = 2
INVARIANTS
  ApmTypeOK
  
  CountsHeld
  StatisticsExact
PROPERTY
  KeptStays
CHECK_DEADLOCK FALSE
