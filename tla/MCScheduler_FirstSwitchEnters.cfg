SPECIFICATION Spec
CONSTANTS
    MAX_TASKS = 5
    t1 = t1
    t2 = t2
    t3 = t3
    t4 = t4
    Tasks = {t1, t2, t3, t4}
    Boot = Boot
    f = f
    g = g
    Main = Main
    Functions = {Main, f, g}
    a = a
    b = b
    Sites = {a, b}
    Entry = Entry
    Locals <- MCLocals
    KernelLocals = 1
    Values <- MCValues
    Stale = Stale
    NULL = NULL
    MaxStack = 0
PROPERTY FirstSwitchEnters
CHECK_DEADLOCK FALSE
