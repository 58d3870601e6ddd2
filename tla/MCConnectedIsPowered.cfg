SPECIFICATION Spec
CONSTANTS
    NRF52 = TRUE
    MaxEvents = 4
\* The bootloader is left by what is not modelled.
CHECK_DEADLOCK FALSE
INVARIANT
    ConnectedIsPowered
