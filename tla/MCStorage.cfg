CONSTANTS
    Procs = {p1, p2}
    Disks = {d1, d2}
SPECIFICATION Spec
INVARIANTS  ReadBack VfsSound  EmufsSound
           
 
SYMMETRY symmetry
VIEW live
CHECK_DEADLOCK FALSE
