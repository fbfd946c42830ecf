\* Two versions of one service, the second one to be confirmed; one worker,
\* one mishap; any access to the file may fail besides.
SPECIFICATION FairSpec
CONSTANTS
  t1 = t1 t2 = t2 k1 = k1
  NoTask = NoTask
  Tasks = {t1, t2} Keys = {k1} KeyOf <- OneKey
  Asked <- SecondWaits Second <- Later
  Workers = {w1}
  KeyCapacity = 4 TaskCapacity = 1
  MaxMishaps = 1
INVARIANTS TypeOK PendingIsUnderWay PassedOnOnce 
PROPERTY ListedIsTaken
CHECK_DEADLOCK FALSE
