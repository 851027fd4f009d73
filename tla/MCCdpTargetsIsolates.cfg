CONSTANTS
    MaxPages = 2
    MaxAttach = 2
    MaxContexts = 1
SPECIFICATION Spec
INVARIANTS EveryPathKeepsOneIsolate
