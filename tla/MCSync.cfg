CONSTANTS
  Procs = {q1, q2, q3, q4}
  NoProc = NoProc
  Tickets = 8
  MaxGap = 4
  MaxCount = 2
  g1 = g1  g2 = g2  m1 = m1  t1 = t1  t2 = t2
  Users = {g1, g2}
  Ms = {m1}
  Owner = m1
  Free = Free
  Timers = {t1, t2}
  MaxNow = 3
  Scenes <- TimerScenes
SPECIFICATION Spec
INVARIANTS SleepersAccounted WaitersReleased NoStaleValue StopHonest NobodyForgotten WakeTimeSound
PROPERTIES ImplementsCondVar
SYMMETRY Symmetry
CHECK_DEADLOCK FALSE
