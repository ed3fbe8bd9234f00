SPECIFICATION Spec
CONSTANTS
    Panels <- MCPanels
    Margin = 3
INVARIANTS
    PicturesAnswer
    InputSettles
    NothingForgotten
PROPERTIES
    TapsExact
    CatchesUp
