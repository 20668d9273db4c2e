SPECIFICATION MachineSpec
CONSTANTS
    Sources <- MCDeferredSources
    Funcs <- MCDeferredViews
    Budgets <- MCMachineBudgets
    CallerSavedRegs <- MCCallerSavedRegs
    IntRegs <- MCIntRegs
    LocalRegs <- MCLocalRegs
    ArgRegs <- MCArgRegs
    NoReg = NoReg
    a0 = a0
    a2 = a2
    s1 = s1
    s2 = s2
    t3 = t3
    t4 = t4
INVARIANT SurvivesClobber
