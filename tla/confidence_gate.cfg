\* One booking and one owner, two sets of facts.
CONSTANTS
    b1 = b1
    m1 = m1
    Facts <- TwoFacts
    Reason <- AllReasons
    Findings <- FindingsOf
    Bookers = {b1}
    Merchants = {m1}
    Owners = {m1}
    MaxVersion = 3
    MaxChanges = 2
SPECIFICATION Spec
CHECK_DEADLOCK FALSE
INVARIANTS TypeOK ReleasedOnReview
PROPERTIES ResolvesWhatWasSeen DecisionImplemented
