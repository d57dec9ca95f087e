SPECIFICATION EngineSpec
CONSTANTS
    drink = drink
    city = city
    a = a
    b = b
    Topic = {drink, city}
    Preference = {drink}
    Value = {a, b}
    External = {TRUE, FALSE}
    Behavior = {"auto", "supersede", "contradict"}
    Lag = {0}
    None = none
    MaxTime = 4
    MaxFault = 1
INVARIANTS
    OnlyRepetitionsEscape
    SuccessionEnds
