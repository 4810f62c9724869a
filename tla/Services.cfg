\* Two concurrent requests of each service, and two to three of them in all.
SPECIFICATION ServicesSpec
CONSTANTS
    DailyClients = {c1, c2}
    LastDay = 3
    Week = 2
    MaxDaily = 3
    Stages = {s1, s2}
    QuietStages = {s2}
    Evaluators = {c1, c2}
    MaxEvaluations = 3
    Senders = {c1, c2}
    SlotsPerDay = 2
    LastSlot = 2
    Cooldown = 1
    Limits = {1, 2}
    MaxAttempts = 2
    MaxNotices = 2
    OfferClients = {c1, c2}
    MaxOffers = 2
    LastTick = 1
    TrialTicks = 6
    Persons <- OfferedPersons
    Learners = {c1, c2}
    Words = {w1, w2}
    KnownWord = w1
    MaxPractice = 2
    Tellers = {c1, c2}
    Qualities = {1}
    MaxTellings = 2
    MaxSessionReviews = 1
    MaxChoices = 1
    Visitors = {c1, c2}
    Standings <- ReachedStandings
    EventWindow = 3
    MaxVisits = 3
    MaxStudies = 1
    Askers = {a1}
    TemplateKeys = {t1, t2}
    TemplateRows <- SavedTemplates
    LearnerStates <- SavedLearners
    MaxAsked = 1
    MaxContentChanges = 1
    Writers = {c1, c2}
    Workers = {c1, c2}
    Limit = 2
    Threshold = 2
    LastId = 3
    MaxFaults = 2
SYMMETRY Symmetry
INVARIANTS
    ServicesTypeOK
    StreakIsARun ShieldOncePerWeek RewardOnce
    StageAgreesOnceSettled NoBurst OffersAddUp PracticeAddsUp TaughtOnce AwardedOnce
    LessonsKeepTheirTemplates RefusedForCause NothingSkipped
PROPERTIES
    QuietAfterPaywall
CHECK_DEADLOCK FALSE
