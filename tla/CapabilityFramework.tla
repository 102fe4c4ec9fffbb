------------------------- MODULE CapabilityFramework -------------------------
(***************************************************************************)
(* The capability framework (backend/capabilities) on top of the provider  *)
(* framework (backend/providers): CapabilityResolver.execute admits a      *)
(* request by the capability registry and the policies, and the            *)
(* capability then asks ProviderResolver for the provider of the moment.   *)
(*                                                                         *)
(* Both registries are dicts in insertion order, keyed by name: sequences  *)
(* of objects here.  Everything is synchronous, but handlers of the        *)
(* published events and the providers' own code run in between, may change *)
(* either registry and execute capabilities themselves: stack holds the    *)
(* executions and replacements under way, the innermost first.             *)
(***************************************************************************)
EXTENDS Naturals, FiniteSets, SequencesExt

CONSTANTS
  Providers,     \* provider objects
  Capabilities,  \* capability objects
  Names,         \* their names, in lower case
  Services,      \* metadata.capability of providers
  Categories, Actions,
  Grants,        \* flags and permissions a context may carry
  Tenants,       \* tenants a policy may name
  NoTenant,      \* the tenant of a context that is none of them
  MaxDepth,      \* bound of the model: executions and replacements inside one another
  NameOf,        \* name of each object
  Serves,        \* service of each provider
  Priority,      \* of each provider: the lowest goes first
  CategoryOf, VersionOf,
  Supports,      \* supported_actions of each capability
  Permissions,   \* metadata.permissions of each capability
  Asks           \* the service a capability's execute() asks for

ASSUME FrameworkAssumption ==
  /\ NameOf \in [Providers \cup Capabilities -> Names]
  /\ Serves \in [Providers -> Services] /\ Priority \in [Providers -> Nat]
  /\ CategoryOf \in [Capabilities -> Categories]
  /\ VersionOf \in [Capabilities -> Nat]
  /\ Supports \in [Capabilities -> SUBSET Actions]
  /\ Permissions \in [Capabilities -> SUBSET Grants]
  /\ Asks \in [Capabilities -> Services]
  /\ MaxDepth \in Nat

VARIABLES
  providers,   \* _providers
  usable,      \* names _enabled_providers says TRUE of
  state,       \* state of each provider, as far as the resolver tells states apart
  capabilities,\* _capabilities
  enabled,     \* names _enabled says TRUE of
  lifecycle,   \* metadata.lifecycle of each capability
  category,    \* _category_index
  version,     \* _version_index, as the objects it holds
  required,    \* required flags and permissions of each capability name
  tenants,     \* tenants each capability name is restricted to, if any
  stack        \* what is under way

providing == <<providers, usable, state>>
indexes == <<capabilities, enabled, lifecycle, category, version>>
policies == <<required, tenants>>
offering == <<indexes, policies>>
vars == <<providing, offering, stack>>

\* Policies of names no capability has say nothing.
CapabilityNames == {NameOf[c] : c \in Capabilities}

\* An execution that has been admitted, one at its provider, and a replacement whose
\* target has just been disabled.
Frames == [at : {"resolved"}, service : Services]
            \cup [at : {"executing", "replacing"}, provider : Providers]

Doing(what) == stack /= <<>> /\ Head(stack).at = what
Push(frame) == Len(stack) < MaxDepth /\ stack' = <<frame>> \o stack
Return == stack' = Tail(stack)

Init ==
  /\ providers = <<>> /\ usable = {}
  /\ state = [p \in Providers |-> "UNREGISTERED"]
  /\ capabilities = <<>> /\ enabled = {} /\ version = {}
  /\ lifecycle = [c \in Capabilities |-> "REGISTERED"]
  /\ category = [k \in Categories |-> <<>>]
  /\ required = [n \in CapabilityNames |-> {}]
  /\ tenants = [n \in CapabilityNames |-> {}]
  /\ stack = <<>>

-----------------------------------------------------------------------------
(* Dicts. *)

Keys(dict) == {NameOf[dict[k]] : k \in DOMAIN dict}
OneOfEachName(dict) == \A j, k \in DOMAIN dict : NameOf[dict[j]] = NameOf[dict[k]] => j = k
At(dict, n) == CHOOSE x \in ToSet(dict) : NameOf[x] = n

\* Variant: a new value goes last, the old one stays.
PutLast(dict, x) == Append(dict, x)

\* A new value takes the place of the old one.
Put(dict, x) ==
  IF NameOf[x] \in Keys(dict)
  THEN [k \in DOMAIN dict |-> IF NameOf[dict[k]] = NameOf[x] THEN x ELSE dict[k]]
  ELSE Append(dict, x)

Pop(dict, n) == RemoveAt(dict, CHOOSE k \in DOMAIN dict : NameOf[dict[k]] = n)

-----------------------------------------------------------------------------
(* RuntimeProviderRegistry and the providers. *)

EnterProvider(p) ==
  /\ providers' = Put(providers, p)
  /\ usable' = usable \cup {NameOf[p]}
  /\ state' = [state EXCEPT ![p] = "LIVE"]
  /\ UNCHANGED offering

RegisterProvider(p) == EnterProvider(p) /\ UNCHANGED stack

\* load_from_manifest initializes the provider first, and register undoes its READY.
LoadProvider(p) == RegisterProvider(p)

EnableProvider(n) ==
  /\ n \in Keys(providers)
  /\ usable' = usable \cup {n}
  /\ UNCHANGED <<providers, state, offering, stack>>

DisableProvider(n) ==
  /\ n \in Keys(providers)
  /\ usable' = usable \ {n}
  /\ UNCHANGED <<providers, state, offering, stack>>

\* The target stays registered, disabled, and is not shut down; handlers of the
\* PROVIDER_DISABLED event run before the new provider is registered.
ReplaceProvider(n, p) ==
  /\ n \in Keys(providers)
  /\ usable' = usable \ {n}
  /\ Push([at |-> "replacing", provider |-> p])
  /\ UNCHANGED <<providers, state, offering>>

\* Without a target nothing is disabled, and nothing published before the registration.
ReplaceNothing(n, p) == n \notin Keys(providers) /\ RegisterProvider(p)

RegisterReplacement ==
  /\ Doing("replacing")
  /\ EnterProvider(Head(stack).provider)
  /\ Return

UnregisterProvider(n) ==
  /\ n \in Keys(providers)
  /\ usable' = usable \ {n}
  /\ providers' = Pop(providers, n)
  /\ state' = [state EXCEPT ![At(providers, n)] = "UNREGISTERED"]
  /\ UNCHANGED <<offering, stack>>

\* clear forgets the providers and leaves them as they are.
ClearProviders ==
  /\ providers' = <<>> /\ usable' = {}
  /\ UNCHANGED <<state, offering, stack>>

\* initialize of a provider, which may raise on the way, shutdown, or a change of health:
\* REGISTERED, INITIALIZING and DEGRADED are LIVE, STOPPED and FAILED are UNAVAILABLE.
ProviderChanges(p) ==
  /\ p \in ToSet(providers)
  /\ state' \in {[state EXCEPT ![p] = s] :
                   s \in {"LIVE", "READY", "UNAVAILABLE"}}
  /\ UNCHANGED <<providers, usable, offering, stack>>

\* By priority; the sort is stable, so that ties stay in the order of registration.
GoesBefore(j, k) ==
  \/ Priority[providers[j]] < Priority[providers[k]]
  \/ Priority[providers[j]] = Priority[providers[k]] /\ j < k

Sorted(found) ==
  LET before(k) == Cardinality({j \in found : GoesBefore(j, k)})
  IN [n \in 1 .. Cardinality(found) |->
        providers[CHOOSE k \in found : before(k) = n - 1]]

\* Variant: disabled providers are candidates too.
CandidatesAll(service) == Sorted({k \in DOMAIN providers : Serves[providers[k]] = service})

\* get_providers_for_capability.
Candidates(service) ==
  Sorted({k \in DOMAIN providers : /\ NameOf[providers[k]] \in usable
                                   /\ Serves[providers[k]] = service})

\* check_health.
IsLive(p) == state[p] /= "UNAVAILABLE"

\* ProviderResolver.resolve: the first that is READY, else the first that is live.
Resolve(service) ==
  LET found == Candidates(service)
      ready == {k \in DOMAIN found : state[found[k]] = "READY"}
      live == {k \in DOMAIN found : IsLive(found[k])}
  IN IF ready /= {} THEN {found[Min(ready)]} ELSE IF live /= {} THEN {found[Min(live)]} ELSE {}

-----------------------------------------------------------------------------
(* RuntimeCapabilityRegistry and CapabilityPolicyManager. *)

\* Variant: a name the registry knows is not indexed again.
RegisterCapabilityUnindexed(c) ==
  /\ capabilities' = Put(capabilities, c)
  /\ enabled' = enabled \cup {NameOf[c]}
  /\ lifecycle' = [lifecycle EXCEPT ![c] = "REGISTERED"]
  /\ category' = IF NameOf[c] \in Keys(capabilities) THEN category
                 ELSE [category EXCEPT ![CategoryOf[c]] = Append(@, NameOf[c])]
  /\ version' = {d \in version : NameOf[d] /= NameOf[c] \/ VersionOf[d] /= VersionOf[c]} \cup {c}
  /\ UNCHANGED <<providing, policies, stack>>

\* The entries of an earlier capability of that name stay in both indexes.
RegisterCapability(c) ==
  /\ capabilities' = Put(capabilities, c)
  /\ enabled' = enabled \cup {NameOf[c]}
  /\ lifecycle' = [lifecycle EXCEPT ![c] = "REGISTERED"]
  /\ category' = [category EXCEPT ![CategoryOf[c]] =
                    IF Contains(@, NameOf[c]) THEN @ ELSE Append(@, NameOf[c])]
  /\ version' = {d \in version : NameOf[d] /= NameOf[c] \/ VersionOf[d] /= VersionOf[c]} \cup {c}
  /\ UNCHANGED <<providing, policies, stack>>

EnableCapability(n) ==
  /\ n \in Keys(capabilities)
  /\ enabled' = enabled \cup {n}
  /\ lifecycle' = [lifecycle EXCEPT ![At(capabilities, n)] = "ENABLED"]
  /\ UNCHANGED <<providing, capabilities, category, version, policies, stack>>

DisableCapability(n) ==
  /\ n \in Keys(capabilities)
  /\ enabled' = enabled \ {n}
  /\ lifecycle' = [lifecycle EXCEPT ![At(capabilities, n)] = "DISABLED"]
  /\ UNCHANGED <<providing, capabilities, category, version, policies, stack>>

ClearCapabilities ==
  /\ capabilities' = <<>> /\ enabled' = {} /\ version' = {}
  /\ category' = [k \in Categories |-> <<>>]
  /\ UNCHANGED <<lifecycle, providing, policies, stack>>

\* set_required_flags, set_required_permissions; what set_allowed_providers and
\* set_denied_providers set is never asked for below.
Require(n, grants) ==
  /\ required' = [required EXCEPT ![n] = grants]
  /\ UNCHANGED <<providing, indexes, tenants, stack>>

\* set_tenant_restrictions: an empty list restricts nothing.
RestrictTo(n, allowed) ==
  /\ tenants' = [tenants EXCEPT ![n] = allowed]
  /\ UNCHANGED <<providing, indexes, required, stack>>

ClearPolicies ==
  /\ required' = [n \in CapabilityNames |-> {}]
  /\ tenants' = [n \in CapabilityNames |-> {}]
  /\ UNCHANGED <<providing, indexes, stack>>

ResolveByCategory(k) ==
  {At(capabilities, n) : n \in ToSet(category[k]) \cap enabled \cap Keys(capabilities)}

ResolveForAction(a) ==
  LET able == SelectSeq(capabilities, LAMBDA c : NameOf[c] \in enabled /\ a \in Supports[c])
  IN IF able = <<>> THEN {} ELSE {Head(able)}

-----------------------------------------------------------------------------
(* CapabilityResolver.execute. *)

\* validate: all flags and permissions of the policies, those the capability itself asks
\* for, and one of the tenants.
Allowed(c, grants, tenant) ==
  /\ required[NameOf[c]] \cup Permissions[c] \subseteq grants
  /\ tenants[NameOf[c]] = {} \/ tenant \in tenants[NameOf[c]]

\* Resolved by name, able to do it, allowed by the policies, and about to be published: by
\* the application, a handler of an event or a provider.
Execute(n, a, grants, tenant) ==
  /\ n \in enabled /\ n \in Keys(capabilities)
  /\ LET c == At(capabilities, n) IN
     /\ a \in Supports[c]
     /\ Allowed(c, grants, tenant)
     /\ Push([at |-> "resolved", service |-> Asks[c]])
  /\ UNCHANGED <<providing, offering>>

\* execute_for_action goes by the name of the first capability that can do it.
ExecuteForAction(a, grants, tenant) ==
  \E c \in ResolveForAction(a) : Execute(NameOf[c], a, grants, tenant)

\* execute_safe: the capability asks ProviderResolver.execute_capability.
CallProvider ==
  /\ Doing("resolved")
  /\ \E p \in Resolve(Head(stack).service) :
       stack' = <<[at |-> "executing", provider |-> p]>> \o Tail(stack)
  /\ UNCHANGED <<providing, offering>>

NoProvider ==
  /\ Doing("resolved")
  /\ Resolve(Head(stack).service) = {}
  /\ Return
  /\ UNCHANGED <<providing, offering>>

\* The provider returns or raises: nobody tries another one.
ProviderReturns ==
  /\ Doing("executing")
  /\ Return
  /\ UNCHANGED <<providing, offering>>

-----------------------------------------------------------------------------

ReconfigureProviders ==
  \/ \E p \in Providers : RegisterProvider(p) \/ LoadProvider(p) \/ ProviderChanges(p)
  \/ \E n \in Names : EnableProvider(n) \/ DisableProvider(n) \/ UnregisterProvider(n)
  \/ \E n \in Names, p \in Providers : ReplaceProvider(n, p) \/ ReplaceNothing(n, p)
  \/ RegisterReplacement \/ ClearProviders

ReconfigureCapabilities ==
  \/ \E c \in Capabilities : RegisterCapability(c)
  \/ \E n \in Names : EnableCapability(n) \/ DisableCapability(n)
  \/ \E n \in CapabilityNames, grants \in SUBSET Grants : Require(n, grants)
  \/ \E n \in CapabilityNames, allowed \in SUBSET Tenants : RestrictTo(n, allowed)
  \/ ClearCapabilities \/ ClearPolicies

Resolver ==
  \/ \E a \in Actions, grants \in SUBSET Grants, tenant \in Tenants \cup {NoTenant} :
       \/ ExecuteForAction(a, grants, tenant)
       \/ \E n \in Names : Execute(n, a, grants, tenant)
  \/ CallProvider \/ NoProvider \/ ProviderReturns

Next == ReconfigureProviders \/ ReconfigureCapabilities \/ Resolver

Spec == Init /\ [][Next]_vars

-----------------------------------------------------------------------------
(* Properties. *)

\* Every variable stays in its type, and a registry holds one object under each name.
TypeOK ==
  /\ providers \in Seq(Providers) /\ capabilities \in Seq(Capabilities)
  /\ OneOfEachName(providers) /\ OneOfEachName(capabilities)
  /\ usable \subseteq Keys(providers) /\ enabled \subseteq Keys(capabilities)
  /\ state \in [Providers -> {"UNREGISTERED", "LIVE", "READY", "UNAVAILABLE"}]
  /\ lifecycle \in [Capabilities -> {"REGISTERED", "ENABLED", "DISABLED"}]
  /\ category \in [Categories -> Seq(Names)] /\ version \subseteq Capabilities
  /\ required \in [CapabilityNames -> SUBSET Grants]
  /\ tenants \in [CapabilityNames -> SUBSET Tenants]
  /\ stack \in Seq(Frames)

\* Through every order of register, replace, enable, disable and unregister the flags, the
\* lifecycles and the indexes agree: discovery by category or by version finds whatever is
\* found by name.
RegistriesAgree ==
  /\ \A p \in ToSet(providers) : state[p] /= "UNREGISTERED"
  /\ \A c \in ToSet(capabilities) :
       /\ NameOf[c] \in enabled <=> lifecycle[c] /= "DISABLED"
       /\ NameOf[c] \in enabled => c \in ResolveByCategory(CategoryOf[c])
       /\ c \in version

Better(p, q) ==
  IF (state[p] = "READY") /= (state[q] = "READY") THEN state[p] = "READY"
  ELSE Priority[p] < Priority[q]

Eligible(service) ==
  {p \in ToSet(providers) : NameOf[p] \in usable /\ Serves[p] = service /\ IsLive(p)}

\* The provider a capability is executed with is the best at the moment it is called, not
\* when the request was admitted: enabled, live, and none of those is READY when it is not
\* or goes before it.  There is none only if no enabled provider is live.  Executions and
\* replacements that handlers and providers make inside an execution change nothing of it.
CalledIsBest ==
  [][Doing("resolved") /\ Len(stack') <= Len(stack) /\ stack' /= stack =>
       LET eligible == Eligible(Head(stack).service) IN
       IF Len(stack') < Len(stack) THEN eligible = {}
       ELSE /\ Head(stack').provider \in eligible
            /\ \A q \in eligible : ~Better(q, Head(stack').provider)]_vars

=============================================================================
