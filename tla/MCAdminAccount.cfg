SPECIFICATION Spec
CONSTANTS
    r1 = r1
    r2 = r2
    s1 = s1
    s2 = s2
    c1 = c1
    c2 = c2
    c3 = c3
    None = None
    Request <- MCRequest
    Secret <- MCSecret
    Captcha <- MCCaptcha
    Password = {admin123, changed}
    DefaultPassword = admin123
    SessionLife = 2
    ChallengeLife = 1
    MaxTime = 3
SYMMETRY Symmetry
INVARIANTS
    TypeOK
    CaptchaSpentOnce
    SessionsEarned
PROPERTIES
    AccountChangesManaged
