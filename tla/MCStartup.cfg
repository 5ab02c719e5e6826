\* Every way to give a setting by the file, the environment and the flags, two starts.
SPECIFICATION Spec
CONSTANTS
  Given <- MCGiven
  Ports = {"8080", "F", "E", "C", "x", "y"}
  Default = "8080"
  Ephemeral = {"x", "y"}
  Contested = {"8080", "x"}
  Switched = "S"
  Processes = {1, 2}
INVARIANTS
  Precedence
  RestartKeepsEffect
  BrowserAtOwn
