SPECIFICATION Spec
CONSTANTS
    Phones = {p1}
    Codes = {c1, c2}
    Cooldown = 2
    OtpLife = 3
    OnboardingLife = 2
    Hour = 4
    HourlyLimit = 2
    MaxAttempts = 1
    Lag = 1
    DispatchLimits = {1, 3}
    MaxOtps = 3
    MaxTime = 6
    MaxTries = 2
SYMMETRY Symmetry
CHECK_DEADLOCK FALSE
INVARIANTS
    TypeOK
    OneActiveOtp
    ConsumedWasValid
    TokenPerConsumedOtp
    CooldownBetweenSent
    WindowIsCounted
PROPERTY DeadOtpStaysDead
