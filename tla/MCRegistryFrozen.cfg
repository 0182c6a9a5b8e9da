SPECIFICATION RegistrySpec
CONSTANTS
    app = app
    api = api
    hooks = hooks
    Routers = {app, api}
    Root = app
    Webhooks = {}
    Decls = {get}
    MountPrefixes = {v1}
    MaxEntries = 2
    MaxMounts = 1
    MaxServes = 1
PROPERTIES
    FrozenImmutable
CHECK_DEADLOCK FALSE
