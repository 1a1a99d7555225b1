SPECIFICATION FairSpec
CONSTANTS
    Requests = {r1, r2}
    KeyIds = {alfa, bravo}
    AlfaKeys = {alfa}
    BravoKeys = {bravo}
    Secrets = {s, t}
    Unhashable = {t}
    Empty = Empty
    Absent = Absent
    Nobody = Nobody
    Methods = {m}
    Outcomes = {"OK", "Unavailable", "panic"}
INVARIANTS OneSecretPerKey AnswersOnlySigned CountersAgree
PROPERTIES EveryRequestEnds
