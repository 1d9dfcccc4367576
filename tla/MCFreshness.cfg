CONSTANTS
  Modules = {1, 2}
  Assets = {2}
  Manifests = {3}
  DepManifests = {4}
  Installed = {2, 4}
  Missing = {}
  Entry = 1
  Imports = {"w", "p"}
  FirstParty = {"w"}
  Named = {"p"}
  Procs = {1, 2}
  Plans <- MCPlans
  MaxGen = 2
SPECIFICATION FreshSpec
INVARIANTS FreshMeansCurrent MemosHonourInstalls
PROPERTY VerdictsSpareGood
CHECK_DEADLOCK FALSE
