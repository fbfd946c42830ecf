\* Two handlers, two dialogs of one user, one environment; an update may come
\* once while another one is processed.
SPECIFICATION Spec
CONSTANTS
  h1 = h1 h2 = h2 d1 = d1 d2 = d2 e1 = e1
  NoDialog = NoDialog NoText = NoText
  Handlers = {h1, h2} Dialogs = {d1, d2}
  Envs = {e1}
  MaxOverlaps = 1
VIEW Seen
CHECK_DEADLOCK FALSE
INVARIANTS TypeOK SubmittedIsShown PanicNeedsTwo EndIsAhead
PROPERTY TimeoutIsOwn
