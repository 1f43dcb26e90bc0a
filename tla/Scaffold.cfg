\* One unit that escalates, is fixed, synced and released; four inception stages;
\* one unit's workflow; one audit entry over three moments; a dashboard of three
\* units.
CONSTANTS
  None = None
  Nothing = Nothing
  Stranger = Stranger
  Units = {e1}
  Reqs = {r1}
  MaxCommits = 3
  Stages = 4
  Size = 1
  Descriptions = {q1, q2}
  MaxItems = 1
  MaxClock = 3
  Described = {u1, u2, u3}
SPECIFICATION MCSpec
SYMMETRY Symmetry
INVARIANTS
  OpenEscalationsKeepTheirMarker
  HalfRestartsStayUndispatched
  AdviceIsAccepted
  DescriptionsAreRecovered
  MainNamesTheMostPressing
  NoGapBetweenReviews
  FinalizedHasItsLog
  WavesAreEarliest
  CyclesAreNamed
  CountsAgreeWithTable
  BlockedPhasesHaveAWayOut
PROPERTIES
  NoReleaseOverOpenEscalation
  ReleasesBringWork
  NoReleaseOfStaleWork
CHECK_DEADLOCK FALSE
