SPECIFICATION Spec
CONSTANTS
  app = app
  mail = mail
  log = log
  app1 = app1
  mail1 = mail1
  log1 = log1
  log2 = log2
  NoInstance = NoInstance
  Transient = Transient
  Names <- ServiceNames
  Instances <- Singles
  Deps <- SharedDeps
  FactoryDeps <- MadeDeps
  Registrations <- AnyRegistration
  FactoryNames <- MadeNames
INVARIANTS
  TypeOK
  NoNameTwice
  StartsOnlyWellFounded
  NoFalseAlarm
  ResolvedIsReady
PROPERTIES
  ResolutionEnds
