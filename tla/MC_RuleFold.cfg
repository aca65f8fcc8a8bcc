SPECIFICATION FoldSpec
CONSTANTS
    None = None
    Targets <- MCTargets
    Pool <- MCPool
    Statuses <- MCStatuses
    MaxChanges = 1
INVARIANT
    WalkIsPass
