SPECIFICATION Spec
CONSTANTS
    None = None
    open1 = open1
    done1 = done1
    node1 = node1
    node2 = node2
    line1 = line1
    lead = lead
    follow = follow
    rescue = rescue
    Condition = {open1, done1, node1, node2, line1}
    Intent = {lead, follow, rescue}
    Profile <- MCProfile
    Decisions <- MCDecisions
    MaxActions = 3
INVARIANTS
    PlansAreCoherent
    CommitNeverRefused
    SelectsWhatItCanJudge
