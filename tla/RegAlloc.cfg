SPECIFICATION Spec
CONSTANTS
    Funcs <- MCFuncs
    Budgets <- MCBudgets
    CallerSavedRegs <- MCCallerSavedRegs
    IntRegs <- MCIntRegs
    LocalRegs <- MCLocalRegs
    NoReg = NoReg
    a2 = a2
    s1 = s1
    s2 = s2
    t3 = t3
    t4 = t4
INVARIANT TypeOK LiveInExact LiveRangesDisjoint CallsPreserve ProperColoring
