CONSTANTS
  alice = alice
  bob = bob
  acme = acme
  lab = lab
  q1 = q1
  q2 = q2
  q3 = q3
  NoOne = NoOne
  Names = {alice, bob, acme, lab}
  Requests = {q1, q2, q3}
  FirstUsers = {alice, bob}
  Offers <- MCOffers
  CliOffers <- MCCliOffers
  FirstRole <- MCFirstRole
SYMMETRY Symmetry
SPECIFICATION Spec
INVARIANTS ActedInStanding TokensBacked 
PROPERTIES SessionsApart
