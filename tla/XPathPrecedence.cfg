SPECIFICATION Spec
CONSTANTS
    SIGNED <- MCSigned
    SIG <- MCSig
    HERE <- MCHere
    URIS <- MCUris
    TRANSFORMS <- MCTransformsSmall
    MAXCHAIN = 1
PROPERTY XPathExact
CHECK_DEADLOCK FALSE
