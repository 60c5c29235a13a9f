\* Three sign-ins, two of them on one port.
CONSTANTS
    Flows = {"checked", "default", "bare"}
    Options <- MCOptions
    Ports = {3000, 3001}
    MaxVisits = 2
    MaxStray = 1
SPECIFICATION Spec
CHECK_DEADLOCK FALSE
INVARIANT
    SignInsNeverCross
PROPERTY
    OwnCallbackIsTaken
