SPECIFICATION PairSpec
CONSTANTS
  Rules <- MCRules
  Routes <- MCRoutes
INVARIANTS
  SubtreeIsSegmentBounded
  OverlapIsComplete
