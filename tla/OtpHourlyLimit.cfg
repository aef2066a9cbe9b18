SPECIFICATION Spec
CONSTANTS
    Phones = {p1}
    Codes = {c1}
    Cooldown = 1
    OtpLife = 3
    OnboardingLife = 2
    Hour = 3
    HourlyLimit = 2
    MaxAttempts = 1
    Lag = 0
    DispatchLimits = {0}
    MaxOtps = 4
    MaxTime = 5
    MaxTries = 2
SYMMETRY Symmetry
CHECK_DEADLOCK FALSE
INVARIANT HourlyLimitHolds
