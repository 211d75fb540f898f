SPECIFICATION Spec
CONSTANTS
    Waiters = {alice}
    Stamps = {3}
    Timeout = 1
    Interval = 1
    MaxId = 2
    MaxTime = 3
PROPERTIES
    DueJobsAreVisible
