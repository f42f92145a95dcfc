SPECIFICATION Spec
CONSTANT N = 4
INVARIANTS IInv FirstWins NobodyLeft
PROPERTIES ReturnsPromptly
