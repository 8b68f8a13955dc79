SPECIFICATION Spec
CONSTANTS
    Configs <- MCConfigs
    Requests <- MCRequests
    BackendIds <- MCBackendIds
    Words <- MCWords
INVARIANTS
    GrantedByBoth
    RouteNamesTheServer
    SelectionIgnoresOrder
PROPERTIES
    AgreeingServicesAccept
