------------------------ MODULE MCCapabilityFramework ------------------------
(* Providers and capabilities on which TLC checks CapabilityFramework. *)
EXTENDS CapabilityFramework, TLC

CONSTANTS main, backup, other, text, textTwo, alpha, beta

\* "other" has the name of "main" and another service; "textTwo" the name of "text",
\* another version and category.
ThreeProviders == {main, backup, other}
TwoCapabilities == {text, textTwo}
TwoNames == {alpha, beta}
NamesOf == (main :> alpha) @@ (backup :> beta) @@ (other :> alpha)
             @@ (text :> alpha) @@ (textTwo :> alpha)
ServesOf == (main :> "llm") @@ (backup :> "llm") @@ (other :> "store")
Priorities == (main :> 10) @@ (backup :> 20) @@ (other :> 10)
CategoriesOf == (text :> "ai") @@ (textTwo :> "data")
Versions == (text :> 1) @@ (textTwo :> 2)
SupportsOf == (text :> {"generate"}) @@ (textTwo :> {"generate"})
PermissionsOf == (text :> {}) @@ (textTwo :> {"permission"})
AsksOf == (text :> "llm") @@ (textTwo :> "llm")

\* Nothing reads the state or lifecycle of an object that is not registered, and registering
\* it sets both: states that differ there only are one.
Observable ==
  <<providers, usable, [p \in ToSet(providers) |-> state[p]],
    capabilities, enabled, [c \in ToSet(capabilities) |-> lifecycle[c]],
    category, version, policies, stack>>

=============================================================================
