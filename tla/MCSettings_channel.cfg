SPECIFICATION Spec
CONSTANTS
    Forms <- MCForms
    BootAddresses <- MCBootAddresses
    Garbage <- MCGarbage
    NullTexts <- MCNullTexts
    ChangesProtocol = FALSE
INVARIANT TunesToItsChannel
