SPECIFICATION Spec
CONSTANTS
    Tolerance = 1
    NoClass = NoClass
    NoPdf = NoPdf
    FontSize = 28
    MinChars = 20
    NoLabel = NoLabel
    AllKeys = AllKeys
    Inside <- MCInside
    Named <- MCNamed
    KindOf <- MCKindOf
    Canonical <- MCCanonical
    PageRange <- MCPageRange
    Review = "review"
    Mathematics = "math"
    Annotation = "annotation"
    Introduction = "introduction"
    TaskTitles = {"tasks"}
    AlgorithmTitles = {"algorithm"}
    AsIsTitles = {"as is"}
    ToBeTitles = {"to be"}
    ResultTitles = {"results"}
    MinSources = 2
    MinForeign = 2
    Recent = 2021
    ShareTwice = 1
    Submissions <- MCSubmissions
    NewKeys <- MCNewKeys
    NewObjects <- MCNewObjects
INVARIANT OnlyItsOwnSection
CHECK_DEADLOCK FALSE
