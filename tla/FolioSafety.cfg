CONSTANTS
    t1 = t1
    t2 = t2
    t3 = t3
    Txns = {t1, t2, t3}
    f1 = f1
    f2 = f2
    Folios = {f1, f2}
    OpenFolios = {f1}
    Totals = {1}
    FirstDay = 2
    LastDay = 3
    MonthStart <- MCMonthStart
    None = None
SPECIFICATION Spec
INVARIANTS TypeOK BalanceIsAccounted RepeatsOverlap ClosedDayRefusesGuardedWrites ReportIsComplete ReversalsCancelCharges
SYMMETRY TxnSymmetry
