CONSTANTS
  r1 = r1
  r2 = r2
  q = q
  s = s
  x = x
  y = y
  snapshot = snapshot
  report = report
  k1 = k1
  k2 = k2
  k3 = k3
  k4 = k4
  m1 = m1
  m2 = m2
  o1 = o1
  Writers = {r1, r2, q}
  Holders = {r1, r2, q}
  Artifacts = {s, x, y}
  Names = {snapshot, report}
  NameOf <- TheNames
  Keys = {k1, k2, k3, k4}
  Bundle <- TheBundles
  Mistakable = {k1}
  Unkeepable = {x}
  Obstructed = {q}
  Free = Free
  Promotions = {m1, m2}
  Objects = {o1}
  ObjectsOf <- TheObjects
  NoKey = NoKey
  NoPromotion = NoPromotion
  Scenarios <- TheScenarios
  KeepNewest = 1
  PinChoices = {{}, {m1}}
  NoScope = NoScope
SPECIFICATION FairPublicationSpec
INVARIANTS SoleWriter BundlesAreReplayable OutputIsWhole PromotionsAreWhole
PROPERTIES LeaseIsGivenBack
CHECK_DEADLOCK FALSE
