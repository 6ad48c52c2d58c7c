\* Two channels; two commands, an activation, a reset and two jobs of intake, one
\* edit: enough for a command to wait behind a job that ends its round while another
\* round begins elsewhere, with a job of its own.
SPECIFICATION Spec
CONSTANTS
    a = a
    NoTask = noTask
    Lifecycle = lifecycle
    Keys = {a, b, lifecycle}
    Templates = {p}
    Commands = {command}
    Activations = {activation}
    Resets = {reset}
    Intakes = {intake1, intake2}
    Tasks = {command, activation, reset, intake1, intake2}
    MaxEdits = 1
CONSTRAINT FirstRoundIsInA
CHECK_DEADLOCK FALSE
PROPERTIES
    ImplementsKeyedQueue
    TasksActAsChecked
