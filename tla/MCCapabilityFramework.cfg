SPECIFICATION Spec
CONSTANTS
  main = main
  backup = backup
  other = other
  text = text
  textTwo = textTwo
  alpha = alpha
  beta = beta
  Providers <- ThreeProviders
  Capabilities <- TwoCapabilities
  Names <- TwoNames
  Services = {"llm", "store"}
  Categories = {"ai", "data"}
  Actions = {"generate", "store"}
  Grants = {"permission"}
  Tenants = {"tenant"}
  NoTenant = "default"
  MaxDepth = 2
  NameOf <- NamesOf
  Serves <- ServesOf
  Priority <- Priorities
  CategoryOf <- CategoriesOf
  VersionOf <- Versions
  Supports <- SupportsOf
  Permissions <- PermissionsOf
  Asks <- AsksOf

VIEW Observable
INVARIANTS
  TypeOK
  RegistriesAgree
PROPERTIES
  CalledIsBest
