SPECIFICATION Spec
CONSTANTS
    SIGNED <- MCSigned
    SIG <- MCSig
    HERE <- MCHere
    URIS <- MCUris
    TRANSFORMS <- MCTransformsSmall
    MAXCHAIN = 3
INVARIANT SignatureRemoved
CHECK_DEADLOCK FALSE
