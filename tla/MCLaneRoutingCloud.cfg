SPECIFICATION Spec
CONSTANTS
    Configs <- MCGranted
    Requests <- MCRequests
    BackendIds <- MCBackendIds
    Words <- MCWords
INVARIANTS
    CloudOnlyWhenAssigned
