SPECIFICATION RegistrySpec
CONSTANTS
    app = app
    api = api
    hooks = hooks
    Routers = {app, api, hooks}
    Root = app
    Webhooks = {hooks}
    Decls = {get}
    MountPrefixes = {v1}
    MaxEntries = 2
    MaxMounts = 2
    MaxServes = 2
INVARIANTS
    FrozenClosed
    FrozenAcyclic
    PublishedIsServed
PROPERTIES
    FirstServeIsCurrent
CHECK_DEADLOCK FALSE
