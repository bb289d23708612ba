SPECIFICATION Spec
CONSTANTS
    MaxSize = 3
    Element = {a, b}
    Blank = blank
PROPERTY IsOverwritingFifo
