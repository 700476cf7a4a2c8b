SPECIFICATION Spec
CONSTANTS
    SIGNED <- MCSigned
    SIG <- MCSig
    HERE <- MCHere
    URIS <- MCUris
    TRANSFORMS <- MCTransformsAll
    MAXCHAIN = 3
INVARIANTS
    TTypeOK
    SignatureExcluded
    CommentsExcluded
    NamespacesKept
    NoRedundantDeclaration
    XmlAttributesKept
    BaseKept
PROPERTIES
    Narrowing
    Filter2Exact
    MarksKept
    RelationshipOrder
    XsltCopies
CHECK_DEADLOCK FALSE
