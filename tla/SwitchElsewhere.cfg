\* One switch outside tmux, and a second shell.
SPECIFICATION Spec
CONSTANTS
    Shells = {s1, s2}
    Layouts = {{}}
    Agents = {claude, codex, opencode}
    Brief = opencode
    MaxSwitches = 1
    MaxEdits = 1
    MaxKills = 1
    None = None
    Blank = Blank
    Garbled = Garbled
INVARIANT
    LaunchInOwnShell
CHECK_DEADLOCK FALSE
