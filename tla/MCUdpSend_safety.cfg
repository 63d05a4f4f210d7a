SPECIFICATION Spec
CONSTANTS
    Size = 7
    Headers <- MCHeaders
    Payloads = {1, 3}
    A = A
    B = B
    Targets = {A, B}
    NoTarget = NoTarget
    MaxFrames = 4
INVARIANTS TypeOK GoesToItsTarget WholeWhenRoom OneAnswerEach
