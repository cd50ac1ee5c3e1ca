SPECIFICATION Spec
CONSTANTS
    Strings = {"a"}
    Tokens = {"{", "}", "[", "]", ",", ":", "a", "number", "sp"}
    MaxTokens = 5
    MaxNodes = 3
    Sources <- SomeSources
    Followers <- SomeFollowers
INVARIANTS
    TextsComeBack
    ValuesComeBack
    WritesSixBits
    AcceptsValues
CHECK_DEADLOCK FALSE
