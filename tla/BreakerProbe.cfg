CONSTANTS
    Threads = {t1, t2, t3, t4}
    Threshold = 2
    MinRequests = 3
    Cap = 4
SPECIFICATION Spec
PROPERTIES
    OneProbe
