CONSTANT
    MaxNodes = 3
SPECIFICATION Spec
INVARIANT SiblingsEnd
