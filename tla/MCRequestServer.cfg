CONSTANTS
    q1 = q1  q2 = q2  q3 = q3  p1 = p1  p2 = p2
    None = None
    Request = {q1, q2, q3}
    Sends <- MCSends
    Principal = {p1}
    RoleOf <- MCRoleOf
    AUTH_ENABLED = TRUE
    PoolSize = 2
    Threads = 3
SPECIFICATION LiveSpec
INVARIANTS NothingLeaks OnlyEntitled AnswerTells
PROPERTIES RequestsAnswered
