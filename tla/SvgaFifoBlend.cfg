SPECIFICATION MCSpec
CONSTANTS
    update = update
    cursor = cursor
    blend = blend
    Command = {update, blend}
    Fixed <- MCFixed
    Args <- MCArgs
    Ring = 9
    Slack = 3
    MaxLoop = 3
    MaxSent = 4
INVARIANTS
    NoDesync
