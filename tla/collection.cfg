SPECIFICATION Spec
CONSTANTS
  MaxRuns = 2
  Series = {1, 2, 3}
  Budget = 2
  Window = 1
  MaxNow = 3
  Rows = {1, 2}
  Disabled = {"uptime"}
  MaxEdits = 2
  Hosts = {1, 2, 3}
  Concurrency = 2
  MaxScans = 2
  DbChecks = {"x", "y"}
  Deployments <- MCDeployments
  DbMaxConns = 2
  MaxOpens = 2
  MaxDbRuns = 2
  Resources = {"r1", "r2"}
  ResultLimit = 1
  MaxXRuns = 2
  MaxChanges = 2
  Devices = {"d"}
  Groups = {"g1"}
  Replicas = {"g1"}
  TopN = 1
  Width = 16
  NameTTL = 2
  MaxHTime = 3
  MaxSpend = 3
  Containers = {"k1", "k2"}
  Endpoints = {"cadvisor", "probes"}
  MaxUse = 2
  MaxLives = 2
  MaxKubeTime = 3
  Units = {"u", "init"}
  InitScope = "init"
  LineLimit = 2
  Buffer = 1
  MaxBackoff = 2
  MaxJTime = 2
  MaxJLines = 4
  QueryEngines = {"postgres", "mysql", "mssql", "oracle"}
  Statements = {"s1", "s2"}
  QueryOf <- MCQueryOf
  QueryLimit = 1
  MaxCalls = 2
  Entries = {"e1"}
  SampleLimit = 1
  Skew = 1
  Visible = 1
  Keep = 2
  Digests = {"d1", "d2", "d3"}
  PlanWait = 1
  PlanHour = 2
  PlanTable = 2
  PlanRate = 1
  PlanLimit = 2
  MaxLogTime = 4
  MaxPlans = 3
INVARIANTS
  CollectionTypeOK
  
  
  
  ReadersComplete

  
CHECK_DEADLOCK FALSE
