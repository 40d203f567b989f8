CONSTANTS
    p1 = p1
    p2 = p2
    f1 = f1
    f2 = f2
    reg = reg
    con = con
    NULL = NULL
SPECIFICATION Spec
INVARIANTS FilesSound  SfsckSound HeapSound  ShellSound
SYMMETRY symmetry
VIEW live
CHECK_DEADLOCK FALSE
