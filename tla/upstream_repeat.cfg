CONSTANTS
  h1 = h1
  h2 = h2
  a1 = a1
  via = via
  None = None
  Hops <- MCHops
  Anchors <- MCAnchors
  Others <- MCOthers
  Via = via
SPECIFICATION Spec
PROPERTIES
  RepeatOffenderLeaves
