\* Transcripts that compete for a session, crossed by the interrupt and the
\* cancel route.
SPECIFICATION FairSpec
CONSTANTS
    Transcripts = {t1, t2}
    Interrupts = {i1}
    Cancels = {c1}
    None = None
INVARIANTS WorkHasAWorker OneTranscript AnswersItsTranscript
PROPERTIES FollowsTransitions ServiceEnds
\* every request may have been served
CHECK_DEADLOCK FALSE
