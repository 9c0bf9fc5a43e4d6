\* All endpoints and the status codes they tell apart, with a fair client and
\* a Bob that may stop at any point.
CONSTANTS
    Timeout = 2
    Horizon = 3
    Codes = {200, 403, 404, 406, 500}
SPECIFICATION FairClient
INVARIANTS TypeOK ResultIsBacked ForbiddenMeansRefused
PROPERTIES CallEnds SilenceEnds
