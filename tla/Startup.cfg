CONSTANTS
  stoul <- Words
  Blank = Blank
  NoPacket = NoPacket
  Sizes = {2, 3, 4}
  Followed = {1, 2}
  HostsFiles <- UpToThreeLines
SPECIFICATION Spec
INVARIANTS TypeOK ReadsWhatTheScriptWrote CompactHosts MajorityUnlessEarly
PROPERTIES SurvivesOnceBuilt EventuallyLogged
\* the process may die
CHECK_DEADLOCK FALSE
