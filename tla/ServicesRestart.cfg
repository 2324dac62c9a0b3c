SPECIFICATION ServicesSpec
INVARIANT RestartKeepsOthers
