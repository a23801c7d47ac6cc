CONSTANTS
  wan_a = wan_a
  wan_b = wan_b
  Probes <- SiteProbes
  UnderTest = wan_a
  First <- SiteFirst
  Builders = {loop, cli}
  Loop = loop
  Size = 2
  MaxExports = 3
SPECIFICATION Spec
INVARIANTS ReadsOneSnapshot ReportIsFresh
PROPERTY LoopGoesOn
