CONSTANTS
    Vocabularies <- SomeVocabularies
    Names <- NamesInOrder
    MaxNesting = 3
    Checked <- BuildExpression
    ExpressionCode <- TranslateExpression
    Size <- StatementCount
SPECIFICATION Spec
INVARIANTS TypeOK PositionsApart ExpressionsFallThrough JumpsResolved InInstructionSet Balanced FollowsStatements
CHECK_DEADLOCK FALSE
