CONSTANTS
  Downloads = {1}
  Life <- PlainLife
  FastPolls = TRUE
  Dated = TRUE
  StaleAnswers = FALSE
  Watchdog = FALSE
SPECIFICATION RefreshSpec
PROPERTY ReadyIsNotRegressed
