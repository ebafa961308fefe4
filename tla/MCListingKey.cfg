\* The promise that the key is kept for the fulfillment job.
CONSTANTS
    h1 = h1
    s1 = s1
    s2 = s2
    u1 = u1
    u2 = u2
    u3 = u3
    c1 = c1
    c2 = c2
    c3 = c3
    None = None
    Contents = {h1}
    Sellers = {s1, s2}
    Uploads <- MCUploads
    UploadBy <- MCUploadBy
    Content <- MCContent
    Publishes <- MCPublishes
    PublishBy <- MCPublishBy
SPECIFICATION Spec
INVARIANT KeyKeptForFulfillment
\* When every call is answered nothing is left to do but to clean up.
CHECK_DEADLOCK FALSE
