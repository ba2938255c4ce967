SPECIFICATION Spec
CONSTANT MaxTroubles = 2
INVARIANTS OffOnExit DuetKeepsStep
