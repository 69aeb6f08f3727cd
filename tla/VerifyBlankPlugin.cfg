SPECIFICATION Spec
CONSTANTS
    Begins <- BlankBegins
    Versions <- BlankVersions
    Sudo = TRUE
INVARIANT PluginsOnlyExpand
