SPECIFICATION Spec
CONSTANT MaxFaults = 3
INVARIANT SchemaIsServed
PROPERTIES HistoryIsKept FailuresHaveCauses OpensInTheEnd
