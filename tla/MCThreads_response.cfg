SPECIFICATION MCSpec
CONSTANTS
    s1 = s1
    s2 = s2
    s3 = s3
    q1 = q1
    q2 = q2
    Submitters <- ThreeSubmitters
    Resubmitting = {s3}
    Requests <- TwoRequests
    MaxChunks = 2
PROPERTY ResponseReported
CHECK_DEADLOCK FALSE
