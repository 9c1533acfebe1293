SPECIFICATION Spec
CONSTANTS
  a1 = a1
  a2 = a2
  NoActor = NoActor
  Actor <- TwoActors
SYMMETRY Symmetry
INVARIANTS
  TypeOK
  RegistryInSync
  BusyActorHasWorker
  ActorHasSnapshot
  ConnectedIsReady
