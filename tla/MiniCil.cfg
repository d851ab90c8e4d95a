SPECIFICATION ParseSpec
CONSTANT Files <- MCFiles
INVARIANTS StatementsRight
PROPERTY Stops
\* the parser stops
CHECK_DEADLOCK FALSE
