SPECIFICATION Spec

CONSTANTS
    Edits = {e1, e2}
    Reviewers = {v1}
    Appliers = {h1, h2}
    UserTexts = {"base"}
    MaxFaults = 0

CHECK_DEADLOCK FALSE
INVARIANT OneOpenBoundary
