SPECIFICATION JoinsSpec
CONSTANTS
    Note = {f, g}
    Old = f
    Name = {a, b}
    Home = a
    None = None
    Lives = 2
    Budgets <- MCBudgets
    MaxTasks = 3
    FileName = {"a", "b", "c"}
    First = "a"
    Allowances <- MCAllowances
    Turns <- MCTurns
INVARIANTS TypesOK OnlyItsOwn FoldedIsHeld OwnNotTaken NothingUndone NamesAgree VersionKept TheirsAsked
CHECK_DEADLOCK FALSE
