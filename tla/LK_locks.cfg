SPECIFICATION Spec
CONSTANTS
    action = action
    child = child
    agent = agent
    None = None
    Keys = {1, 2}
    Actions = {action}
    Children = {child}
    Agents = {agent}
    Wants <- OneOrBoth
    Repeat = {agent}
    Lease = 3
    Margin = 2
    Grace = 1
INVARIANTS TypeOK WritersHoldTheirLocks
PROPERTIES KeepsExclusion AbandonedLocksMove
