SPECIFICATION Spec
CONSTANTS
    AllowedOrigins <- MCAllowedOrigins
    Bodies <- MCBodies
INVARIANTS LoggedAsSent EffectsGuarded RefusedIsFree PageReadsAnswer ShownIsNormal
CHECK_DEADLOCK FALSE
