\* Hovers, rebuilds of the strip and failing reads, without bounds.
CONSTANTS
    Strips <- MCStrips

SPECIFICATION HoverSpec

INVARIANTS
    ProcessGateExact
    TipFollowsHover
    RankedOverOneTick
    RateOfThisActivation
