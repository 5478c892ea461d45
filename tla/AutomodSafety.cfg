\* Two moderators, one that forgets a squad and one that skips warnings.
CONSTANTS
    Mods = {"no_leader", "seeding_rules"}
    Squads = {q1}
    Players = {p1}
    NoSquad = NoSquad
    Config <- TwoConfig
    ResetTime = 3
    Cap = 2

SPECIFICATION Spec
PROPERTIES
    KickIsEarned
    RefundIsExact
