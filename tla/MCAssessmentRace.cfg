SPECIFICATION Spec
CONSTANTS
    operator1 = operator1
    operator2 = operator2
    driver = driver
    NoTxn = NoTxn
    Cancellers <- MCCancellers
    Drivers <- MCDrivers
PROPERTIES FinishedStaysFinished
