\* Three contexts in every way they can derive from each other.
SPECIFICATION Spec
CONSTANTS
    Scribble = Scribble
    NoDecision = NoDecision
    Words <- SmallWords
    Constraints <- SmallConstraints
    PolicyTables <- SmallTables
    Answers <- SmallAnswers
    MaxContexts = 3
    MaxTime = 2
INVARIANTS
    KeptDecisionsAreSound
PROPERTIES
    KeptIsImmutable
    EarlierDecisionsStay
