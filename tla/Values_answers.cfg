SPECIFICATION Spec
CONSTANTS
    MaxJoined = 4
    Hash <- MCHash
    Amount <- MCAmount
    Percent <- MCPercent
    WideDigit <- MCWideDigit
    Text <- MCText
    Id <- MCId
    Generation <- MCGeneration
    Selection <- MCSelection
INVARIANTS
    QuoteIsRight
    TextsAreReadRight
    KeysTellQuestionsApart
