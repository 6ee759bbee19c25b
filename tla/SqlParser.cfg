SPECIFICATION Spec
CONSTANT MaxTokens = 12
INVARIANTS TreeOfStatement NeverExhausted ExpectedTokensAllowed
PROPERTIES ImplementsGrammar TokenDecided
