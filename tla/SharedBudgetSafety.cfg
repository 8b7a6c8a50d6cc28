\* Three runs charge at once; the budget is a third of the word, which fills.
SPECIFICATION FairSpec
CONSTANTS
    Runs = {r1, r2, r3}
    Calls = {compaction, model}
    MaxTokens = 3
    Amounts = {0, 2}
    PerCall = 2
    MaxWord = 6
INVARIANTS SpendBounded
PROPERTIES ImplementsBudget
CHECK_DEADLOCK FALSE
