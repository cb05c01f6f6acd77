\* Launches, refreshed tickets, refusals, stops, drift and games outside.
SPECIFICATION Spec
CONSTANTS
  MaxChallenges = 2
  MaxTickets = 2
INVARIANTS
  GameHasItsGateway
  RestsOnDecision
  MarkerMeansActive
PROPERTIES
  GameAsDirected
  ForeignSurvives
