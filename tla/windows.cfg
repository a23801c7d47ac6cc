SPECIFICATION WindowsSpec
CONSTANTS
  Families = {"ipv4", "ipv6"}
  Cooldown = 2
  MtrLimit = 1
  MaxHosts = 2
INVARIANTS TracesAreSpaced 
PROPERTY WindowsGoOn
