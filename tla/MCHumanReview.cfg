CONSTANTS
    v1 = v1  f1 = f1  r1 = r1  r2 = r2   p1 = p1  p2 = p2  b1 = b1
    None = None
    Subject = {v1}
    Finding = {f1}
    Reviewer = {r1, r2}
    Principal = {p1, p2}
    NameOf <- MCNameOf
    Run = {b1}
    MaxReviews = 2
SPECIFICATION HRLiveSpec
INVARIANTS OneActiveReview MainExitZero AnswersAgree
PROPERTIES ReviewHistory EverythingReviewed
