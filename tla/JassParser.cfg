SPECIFICATION Spec
CONSTANTS
    Text <- MCText
    Program <- MCProgram
    Nil = Nil
    Lexeme <- MCLexeme
    Length = 4
INVARIANTS
    TypeOK
    Faithful
    LocalsOwned
PROPERTIES
    Progress
    Terminates
CHECK_DEADLOCK FALSE
