SPECIFICATION FairSpec
CONSTANTS
    Features = {"wallpaper", "animation"}
    MaxCommands = 2
    MaxFailures = 1
INVARIANT SettingsFollow
PROPERTY LogonLoads
CHECK_DEADLOCK FALSE
