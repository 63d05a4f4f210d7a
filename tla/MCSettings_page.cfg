SPECIFICATION Spec
CONSTANTS
    Forms <- MCForms
    BootAddresses <- MCBootAddresses
    Garbage <- MCGarbage
    NullTexts <- MCNullTexts
    ChangesProtocol = TRUE
INVARIANTS TypeOK ShowsWhatWasSet SendsWhereThePageSays CommandsAgree ReceivesItsProtocol
