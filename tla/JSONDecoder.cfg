SPECIFICATION Spec
CONSTANT MaxText = 7
INVARIANTS TypeOK StackMatches TakesJSON
PROPERTY NestedAndMatched
