\* Requests, which may hang for ever, and the startup probe when the process is
\* told to stop, under fair scheduling.
SPECIFICATION FairSpec
CONSTANTS
    Handlers = {h1, h2, h3}
    Prober = prober
    Main = main
    Nil = Nil
CHECK_DEADLOCK FALSE
INVARIANTS
    GracefulAnswersAll
    ContextUsedWhileOpen
    ReleasedOnExit
PROPERTIES
    SignalEndsProcess
