CONSTANTS
    RefreshSeconds = 3
    FetchDeadline = 2
    MaxAge = 4
    MaxChanges = 2
SPECIFICATION FairSpec
INVARIANTS TypeOK ResultAnswersRequest RefusedStaysRefused
PROPERTIES LateNeverSucceeds RequestsArePaced ForecastComesBack
