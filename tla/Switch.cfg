\* Two switches from two shells, none, one or both of them in tmux.
SPECIFICATION FairSpec
CONSTANTS
    Shells = {s1, s2}
    Layouts = {{}, {s2}, {s1, s2}}
    Agents = {claude, opencode}
    Brief = opencode
    MaxSwitches = 2
    MaxEdits = 1
    MaxKills = 1
    None = None
    Blank = Blank
    Garbled = Garbled
INVARIANTS
    TypeOK
    OneHandoffPerFile
    BootsWithContext
    UserTextKept
PROPERTIES
    MarkerIsTaken
\* Shells that tmux has closed stay closed.
CHECK_DEADLOCK FALSE
