SPECIFICATION Spec
CONSTANT
    Worlds <- TornWorlds
PROPERTY ForgottenWhenComplete
CHECK_DEADLOCK FALSE
