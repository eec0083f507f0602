SPECIFICATION Spec
INVARIANTS FederationExact RoadsAgree DefinitionsDeploy TextFaithful CatalogFaithful AccessSound
CHECK_DEADLOCK FALSE
