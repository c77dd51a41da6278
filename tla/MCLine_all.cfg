CONSTANTS
    null = null
    undefined = undefined
    Null = null
    Undefined = undefined
    Commands <- MCCommands
    OnShare <- MCOnShare
    Put <- MCPut
    Local <- MCLocal
    Remote <- MCRemote
    Letters <- MCLetters
    MaxLine = 5
    WordLists <- MCWordLists
    Pattern <- MCPattern
    FoundLists <- MCFoundLists
    Plain <- MCPlain
    WithArg <- MCWithArg
    Dash <- MCDash
    Inputs <- MCInputs
    Length <- MCLength
    MaxPath = 6
SPECIFICATION Spec
INVARIANTS
    ReadAsQuoted
    ReadsBack
    ListsHold
    OptionsAsGiven
    PathsEvaluated
