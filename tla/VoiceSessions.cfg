CONSTANTS
    s1 = s1
    s2 = s2
    a1 = a1
    a2 = a2
    a3 = a3
    Sessions = {s1, s2}
    Agents = {a1, a2, a3}
    Installed <- MCInstalled
    Granted <- MCGranted
    UserData <- MCUserData
    MaxSubs = 1
    MaxTurns = 1
    MaxAnswers = 2
    None = None
SPECIFICATION Spec
INVARIANTS
    AnswersMissedOnlyByOvertaken
    SubscriptionsAreServed
    OnlyGrantedIsHeard
CHECK_DEADLOCK FALSE
