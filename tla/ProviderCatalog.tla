--------------------------- MODULE ProviderCatalog ---------------------------
(* What the panels know of the backend's providers                              *)
(* (contracts/backend/providerMessages.ts).                                       *)
EXTENDS Sequences, SequencesExt

CONSTANTS Providers,     \* the provider ids, in the backend's order
          Custom,        \* the provider with an endpoint of the user's
          Models,        \* model ids a provider may list, in its order
          DefaultModel,  \* the model a provider is used with when none is selected
          None

ProviderSet == ToSet(Providers)
ModelSet    == ToSet(Models)

\* PROVIDER_IDS is an array of strings, as is a list of models, and no provider is the
\* absent one.
ASSUME CatalogAssumption ==
    /\ Providers \in Seq(ProviderSet) /\ Models \in Seq(ModelSet)
    /\ None \notin ProviderSet \cup {Custom}

NoSelection == [provider |-> None, model |-> None]

\* A selection of a provider that is not connected gives way to the first
\* connected provider with a default model.
EffectiveSelection(active, connected) ==
    LET usable == SelectSeq(Providers, LAMBDA p : p \in connected /\ DefaultModel[p] # None)
    IN  IF active.provider \in connected /\ active.model # None THEN active
        ELSE IF usable = <<>> THEN active
        ELSE [provider |-> Head(usable), model |-> DefaultModel[Head(usable)]]

=============================================================================
