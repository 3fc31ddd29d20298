SPECIFICATION Spec
CONSTANTS
    w1 = w1
    c1 = c1
    sms = sms
    Rows = {1, 2}
    Templates = {sms}
    MaxAttempts = 2
    Batch = 2
    Ticks = {w1}
    Clerks = {c1}
    MaxRetries = 1
    MaxStops = 1
    Practices <- Apart
INVARIANT NoDoubleSend
PROPERTIES StepsKept DueStepsSettle
